---- MODULE Spec2Model ----
(***************************************************************************)
(* CADCameraControls (src/src/CADCameraControls.ts, lines 562-1368): the   *)
(* controller that turns pointer, touch, wheel and key events into camera  *)
(* transforms about a fixed pivot, with inertial damping in update().      *)
(*                                                                         *)
(* Numbers.  JavaScript doubles are modelled in fixed point:               *)
(*   lengths and the dolly velocity   in 1/PU world units,                 *)
(*   pixel deltas, rotate/pan velocity in 1/XU pixels,                     *)
(*   multiplicative factors (scale, factor, zoom and fov velocity,         *)
(*   damping)                         in 1/SU,                             *)
(*   camera.fov                       in 1/FU degrees,                     *)
(*   camera.zoom                      in 1/ZU,                             *)
(*   normalized device coordinates    in 1/NU,                             *)
(*   tan(fov/2)                       in 1/TU,                             *)
(*   angles                           in 1/XU radians.                     *)
(* Products are divided with truncation toward zero (MulDiv).              *)
(*                                                                         *)
(* Frame.  camera.position is kept as the vector from the pivot to the     *)
(* camera resolved on the camera's own axes <<right, up, back>> (the       *)
(* camera looks along -back, three.js convention).  Every operation of the *)
(* controller reads the world only through these axes                      *)
(* (CAMERA_RIGHT/CAMERA_UP applied to camera.quaternion, getWorldDirection,*)
(* Raycaster.setFromCamera); _applyRotate turns the offset and the camera  *)
(* by the same two quaternions (lines 898-901), so it leaves these         *)
(* coordinates alone and adds its two angles to camera.quaternion, kept as *)
(* the turntable pair [yaw, pitch].                                        *)
(***************************************************************************)
EXTENDS Integers, Sequences, FiniteSets, TLC

\* ---------------------------------------------------------------- units
PU == 2^7
XU == 2^7
SU == 2^14
FU == 10 * 10
ZU == 2^10
NU == 2^3
TU == 2^10

\* ------------------------------------------------------ program constants
\* const PLANE_EPSILON = 1e-6, as its inverse
PLANE_EPSILON_INV == 1000000
\* const STOP_EPSILON = 0.01, as its inverse
STOP_EPSILON_INV == 100
\* const ZOOM_STOP_EPSILON = 0.0001, as its inverse
ZOOM_STOP_EPSILON_INV == 10000
\* const FOV_EPSILON = 0.01 degrees
FOV_EPSILON == FU \div 100
\* const MIN_DISTANCE_BUFFER = 1 world unit
MIN_DISTANCE_BUFFER == 1 * PU
\* const PINCH_SCALE = 0.25, as its inverse
PINCH_SCALE_INV == 4
\* const MIN_DAMPING = 0.0001
MIN_DAMPING == SU \div 10000

\* ------------------------------------------------------------ arithmetic
Abs(a) == IF a < 0 THEN -a ELSE a

Sgn(a) == IF a < 0 THEN -1 ELSE IF a > 0 THEN 1 ELSE 0

Max(a, b) == IF a >= b THEN a ELSE b

Min(a, b) == IF a <= b THEN a ELSE b

\* a * n / d, truncated toward zero
MulDiv(a, n, d) == Sgn(a) * Sgn(n) * Sgn(d) * ((Abs(a) * Abs(n)) \div Abs(d))

\* MathUtils.clamp(value, min, max) = Math.max(min, Math.min(max, value))
Clamp(value, lo, hi) == Max(lo, Min(hi, value))

\* Body(value), with value computed once
Bind(value, Body(_)) == CHOOSE result \in {Body(v) : v \in {value}} : TRUE

\* Newton's iteration from x down to the root of n
RECURSIVE ISqrtIter(_, _)
ISqrtIter(n, x) ==
    IF (x + n \div x) \div 2 >= x THEN x
    ELSE Bind((x + n \div x) \div 2, LAMBDA y : ISqrtIter(n, y))

\* Math.sqrt, rounded down
ISqrt(n) == IF n < 2 THEN n ELSE ISqrtIter(n, n \div 2 + 1)

\* ---------------------------------------------------------------- vectors
Vec3(x, y, z) == <<x, y, z>>

Add3(a, b) == <<a[1] + b[1], a[2] + b[2], a[3] + b[3]>>

Sub3(a, b) == <<a[1] - b[1], a[2] - b[2], a[3] - b[3]>>

Dot3(a, b) == a[1] * b[1] + a[2] * b[2] + a[3] * b[3]

\* Vector3.multiplyScalar(n / d)
Scale3(a, n, d) == <<MulDiv(a[1], n, d), MulDiv(a[2], n, d), MulDiv(a[3], n, d)>>

\* Vector3.length()
Length3(a) == Bind(a, LAMBDA v : Bind(Dot3(v, v), ISqrt))

\* ------------------------------------------------- the host's settings
\* The values the host gives the public properties after construction
\* (the constructor's defaults are lines 722-744).
\* element.getBoundingClientRect(): left = top = 0, width = height = ElementSize px
ElementSize == 2^3
\* this.minDistance, this.maxDistance
HostMinDistance == 4 * PU
HostMaxDistance == 32 * PU
\* this.minZoom, this.maxZoom
HostMinZoom == ZU \div 4
HostMaxZoom == 4 * ZU
\* this.minFov
HostMinFov == 10 * FU
\* this.rotateSpeed = RotateSpeedNum / RotateSpeedDen radians per pixel
RotateSpeedNum == 1 * 1
RotateSpeedDen == 2^3
\* this.panSpeed = PanSpeedNum / PanSpeedDen
PanSpeedNum == 1 * 1
PanSpeedDen == 2^4
\* this.zoomSpeed and this.keyZoomSpeed, in quarter half-lives of ZOOM_BASE:
\* Math.pow(ZOOM_BASE, zoomSpeed * x) = 2^(-HostZoomSpeed * x / 4)
HostZoomSpeed == 8 * 100
HostKeyZoomSpeed == 2^3
\* this.keyPanSpeed, pixels
HostKeyPanSpeed == 2 * XU
\* this.keyRotateSpeed
HostKeyRotateSpeed == 1 * 1
\* this.dampingFactor = 1/2
HostDampingFactor == SU \div 2
\* the perspective camera's fov and the orthographic camera's zoom and frustum
\* half extent when the controller is constructed
CameraFov == 40 * FU
CameraZoom == 1 * ZU
OrthoHalfSize == 8 * PU
\* the camera's distance to the pivot when the controller is constructed
CameraDistance == 8 * PU

\* The optional argument maxFov of _applyFovZoom when it is not passed
Undefined == 0 - 1

\* -------------------------------------------------- the camera's geometry
\* this.pivot: the origin of the frame
Pivot == <<0, 0, 0>>
\* CAMERA_RIGHT.applyQuaternion(camera.quaternion)
Right == <<1, 0, 0>>
\* CAMERA_UP.applyQuaternion(camera.quaternion)
Up == <<0, 1, 0>>
\* camera.getWorldDirection()
Forward == <<0, 0, 0 - 1>>

\* tan(fov / 2) at fov = 0, 10, ..., 140 degrees, in 1/TU
TanTable == <<0, 90, 181, 274, 373, 477, 591, 717, 859, 1024, 1220, 1462, 1774, 2196, 2813>>

\* Math.tan(MathUtils.degToRad(fov / 2)): the table, interpolated linearly
TanHalf(fov) ==
    LET f == Clamp(fov, 0, 140 * FU - 1)
        i == f \div (10 * FU)
        r == f % (10 * FU)
    IN  TanTable[i + 1] + ((TanTable[i + 2] - TanTable[i + 1]) * r) \div (10 * FU)

\* Raycaster.setFromCamera(pointer, camera).ray.direction for the perspective
\* camera: the direction through the pointer, d / len
RayFromCamera(st, pointer) ==
    LET t == TanHalf(st.fov)
        d == <<pointer[1] * t, pointer[2] * t, 0 - NU * TU>>
    IN  [d |-> d, len |-> Length3(d)]

\* Vector3(pointer.x, pointer.y, 0).unproject(camera) for the orthographic
\* camera at the given zoom
Unproject(position, zoom, pointer) ==
    Add3(position, <<MulDiv(pointer[1] * OrthoHalfSize, ZU, zoom * NU),
                     MulDiv(pointer[2] * OrthoHalfSize, ZU, zoom * NU),
                     0 - OrthoHalfSize>>)

\* camera.position.distanceTo(this.pivot)
Distance(st) == Length3(Sub3(st.position, Pivot))

\* intersectRayWithPlane(rayOrigin, rayDirection, planePoint, planeNormal, out):
\* [hit, out]; the ray's direction is ray.d / ray.len
intersectRayWithPlane(rayOrigin, ray, planePoint, planeNormal) ==
    Bind(Dot3(planeNormal, ray.d), LAMBDA denomN :
    Bind(Dot3(planeNormal, Sub3(planePoint, rayOrigin)), LAMBDA tN :
        IF Abs(denomN) <= (ray.len - 1) \div PLANE_EPSILON_INV
        THEN [hit |-> FALSE, out |-> Sub3(planePoint, rayOrigin)]
        ELSE IF Sgn(tN) * Sgn(denomN) < 0
        THEN [hit |-> FALSE, out |-> Sub3(planePoint, rayOrigin)]
        ELSE [hit |-> TRUE, out |-> Add3(rayOrigin, Scale3(ray.d, tN, denomN))]))

\* this.dispatchEvent(event); notified keeps the last `start` or `end`
\* dispatched since construction (instrumentation)
dispatchEvent(st, type) ==
    [st EXCEPT !.dispatched = Append(@, type),
               !.notified = IF type \in {"start", "end"} THEN type ELSE @]

\* The zoom ticks and the primitive operations a handler has applied so far,
\* each with what it read and what it left (instrumentation)
Called(st, op) == [st EXCEPT !.calls = Append(@, op)]

\* --------------------------------------------- the transform operations
\* _applyRotate(dx, dy): yaw about WORLD_UP by -dx * rotateSpeed, then pitch
\* about the yawed right axis by -dy * rotateSpeed.  The offset from the pivot
\* and the camera turn together, so position (resolved on the camera's axes)
\* keeps its coordinates.
_applyRotate(st, dx, dy) ==
    LET yaw == MulDiv(0 - dx, RotateSpeedNum, RotateSpeedDen)
        pitch == MulDiv(0 - dy, RotateSpeedNum, RotateSpeedDen)
        moved == [st EXCEPT !.quaternion = [yaw |-> @.yaw + yaw, pitch |-> @.pitch + pitch]]
    IN  dispatchEvent(Called(moved, [op |-> "Rotate", dx |-> dx, dy |-> dy]), "change")

\* worldPerPixel of _applyPan, in 1/PU world units per pixel
WorldPerPixel(st) ==
    IF st.isOrthographic
    THEN MulDiv(PU * PanSpeedNum, ZU, PanSpeedDen * st.zoom)
    ELSE IF st.zoomMode = "fov" \/ st.zoomMode = "auto"
    THEN MulDiv(2 * Distance(st) * TanHalf(st.fov), PanSpeedNum, TU * PanSpeedDen)
    ELSE MulDiv(Distance(st), PanSpeedNum, PanSpeedDen)

\* _applyPan taking the pivot along with the camera
PanCarryingPivot(st, dx, dy) ==
    LET worldPerPixel == WorldPerPixel(st)
        move == Add3(Scale3(Right, MulDiv(0 - dx, worldPerPixel, XU), 1),
                     Scale3(Up, MulDiv(dy, worldPerPixel, XU), 1))
    IN  dispatchEvent(
            Called([st EXCEPT !.pivot = Add3(@, move)], [op |-> "Pan", dx |-> dx, dy |-> dy]),
            "change")

\* _applyPan turning the camera towards where it came from
PanTurningCamera(st, dx, dy) ==
    LET worldPerPixel == WorldPerPixel(st)
        move == Add3(Scale3(Right, MulDiv(0 - dx, worldPerPixel, XU), 1),
                     Scale3(Up, MulDiv(dy, worldPerPixel, XU), 1))
    IN  dispatchEvent(
            Called([st EXCEPT !.position = Add3(@, move),
                              !.quaternion.yaw = @ + MulDiv(dx, RotateSpeedNum, RotateSpeedDen)],
                   [op |-> "Pan", dx |-> dx, dy |-> dy]),
            "change")

\* _applyPan(dx, dy)
_applyPan(st, dx, dy) ==
    Bind(WorldPerPixel(st), LAMBDA worldPerPixel :
    Bind(Add3(Scale3(Right, MulDiv(0 - dx, worldPerPixel, XU), 1),
              Scale3(Up, MulDiv(dy, worldPerPixel, XU), 1)), LAMBDA move :
    Bind([st EXCEPT !.position = Add3(@, move)], LAMBDA moved :
        dispatchEvent(Called(moved, [op |-> "Pan", dx |-> dx, dy |-> dy]), "change"))))

\* The distance clamp of _applyDolly (lines 952-959): nextPos with its offset
\* from the pivot rescaled to the clamped distance
ClampToDistance(st, nextPos) ==
    Bind(Sub3(nextPos, Pivot), LAMBDA nextFromPivot :
    Bind(Length3(nextFromPivot), LAMBDA nextDistance :
    Bind(Clamp(nextDistance, st.minDistance, st.maxDistance), LAMBDA clampedDistance :
        IF nextDistance > 0 /\ clampedDistance # nextDistance
        THEN Add3(Pivot, Scale3(nextFromPivot, clampedDistance, nextDistance))
        ELSE nextPos)))

\* _applyDolly moving along the view direction only
DollyAlongForward(st, step, pointer) ==
    IF st.isOrthographic THEN st
    ELSE LET moved == [st EXCEPT !.position = ClampToDistance(st, Add3(st.position, Scale3(Forward, step, 1)))]
         IN  dispatchEvent(Called(moved, [op |-> "Dolly", step |-> step, distance |-> Distance(moved)]),
                           "change")

\* _applyDolly(step, pointer)
_applyDolly(st, step, pointer) ==
    IF st.isOrthographic THEN st
    ELSE
    Bind(RayFromCamera(st, pointer), LAMBDA ray :
    Bind(Add3(st.position, Scale3(Forward, step, 1)), LAMBDA nextPos :
    Bind(intersectRayWithPlane(st.position, ray, Pivot, Forward), LAMBDA before :
    Bind(intersectRayWithPlane(nextPos, ray, Pivot, Forward), LAMBDA after :
    Bind(IF before.hit /\ after.hit
         THEN Add3(nextPos, Sub3(before.out, after.out))
         ELSE Add3(nextPos, Scale3(ray.d, step, ray.len)), LAMBDA anchored :
    Bind([st EXCEPT !.position = ClampToDistance(st, anchored)], LAMBDA moved :
        dispatchEvent(Called(moved, [op |-> "Dolly", step |-> step, distance |-> Distance(moved)]),
                      "change")))))))

\* _applyZoom with camera.zoom * factor left unclamped
ZoomUnclamped(st, factor, pointer) ==
    LET before == Unproject(st.position, st.zoom, pointer)
        zoom == MulDiv(st.zoom, factor, SU)
        after == Unproject(st.position, zoom, pointer)
        moved == [st EXCEPT !.zoom = zoom, !.position = Add3(Sub3(@, after), before)]
    IN  dispatchEvent(Called(moved, [op |-> "Zoom", factor |-> factor,
                                     product |-> MulDiv(st.zoom, factor, SU)]), "change")

\* _applyZoom(factor, pointer)
_applyZoom(st, factor, pointer) ==
    Bind(Unproject(st.position, st.zoom, pointer), LAMBDA before :
    Bind(Clamp(MulDiv(st.zoom, factor, SU), st.minZoom, st.maxZoom), LAMBDA zoom :
    Bind(Unproject(st.position, zoom, pointer), LAMBDA after :
    Bind([st EXCEPT !.zoom = zoom, !.position = Add3(Sub3(@, after), before)], LAMBDA moved :
        dispatchEvent(Called(moved, [op |-> "Zoom", factor |-> factor,
                                     product |-> MulDiv(st.zoom, factor, SU)]), "change")))))

\* _applyFovZoom without its `change`
FovZoomUnannounced(st, factor, pointer, maxFov) ==
    LET before == intersectRayWithPlane(st.position, RayFromCamera(st, pointer), Pivot, Forward)
        fov == Clamp(MulDiv(st.fov, SU, factor), st.minFov, IF maxFov = Undefined THEN st.maxFov ELSE maxFov)
        narrowed == [st EXCEPT !.fov = fov]
        after == intersectRayWithPlane(st.position, RayFromCamera(narrowed, pointer), Pivot, Forward)
        moved == IF before.hit /\ after.hit
                 THEN [narrowed EXCEPT !.position = Sub3(Add3(@, before.out), after.out)]
                 ELSE narrowed
    IN  Called(moved, [op |-> "FovZoom", factor |-> factor, maxFov |-> maxFov,
                       quotient |-> MulDiv(st.fov, SU, factor)])

\* _applyFovZoom(factor, pointer, maxFov?)
_applyFovZoom(st, factor, pointer, maxFov) ==
    Bind(intersectRayWithPlane(st.position, RayFromCamera(st, pointer), Pivot, Forward), LAMBDA before :
    Bind(Clamp(MulDiv(st.fov, SU, factor), st.minFov,
               IF maxFov = Undefined THEN st.maxFov ELSE maxFov), LAMBDA fov :
    Bind([st EXCEPT !.fov = fov], LAMBDA narrowed :
    Bind(intersectRayWithPlane(st.position, RayFromCamera(narrowed, pointer), Pivot, Forward), LAMBDA after :
    Bind(IF before.hit /\ after.hit
         THEN [narrowed EXCEPT !.position = Sub3(Add3(@, before.out), after.out)]
         ELSE narrowed, LAMBDA moved :
        dispatchEvent(Called(moved, [op |-> "FovZoom", factor |-> factor, maxFov |-> maxFov,
                                     quotient |-> MulDiv(st.fov, SU, factor)]), "change"))))))

\* ------------------------------------------------------------ zoom ticks
\* 2^(-j/4) for j = 0..3, in 1/SU
QuarterTable == <<SU, 13777, 11585, 9742>>

\* Math.pow(ZOOM_BASE, x) for an exponent of e quarter half-lives: 2^(-e/4)
ZoomPow(e) ==
    IF e >= 0
    THEN QuarterTable[(e % 4) + 1] \div (2^(e \div 4))
    ELSE LET q == (3 - e) \div 4
         IN  QuarterTable[4 * q + e + 1] * (2^q)

\* const dampingScale = this.enableDamping ? this.dampingFactor : 1
DampingScale(st) == IF st.enableDamping THEN st.dampingFactor ELSE SU

\* ZoomBy with the zoom-in test of 'auto' at minDistance itself, without the buffer
ZoomByNoBuffer(st, scale, isZoomIn, pointer) ==
    LET factor == (SU * SU) \div scale
        distance == Distance(st)
        step == MulDiv(distance, SU - scale, SU)
        tick == Called(st, [op |-> "Tick", isZoomIn |-> isZoomIn, scale |-> scale,
                            pointer |-> pointer, distance |-> distance, fov |-> st.fov,
                            position |-> st.position])
        dolly == [_applyDolly(tick, step, pointer) EXCEPT !._dollyVelocity = step]
    IN  IF st.isOrthographic
        THEN [_applyZoom(tick, factor, pointer) EXCEPT !._zoomVelocity = factor]
        ELSE IF st.zoomMode = "fov"
        THEN [_applyFovZoom(tick, factor, pointer, Undefined) EXCEPT !._fovVelocity = factor]
        ELSE IF st.zoomMode = "auto"
        THEN IF isZoomIn
             THEN IF distance <= st.minDistance
                  THEN [_applyFovZoom(tick, factor, pointer, Undefined) EXCEPT !._fovVelocity = factor]
                  ELSE dolly
             ELSE IF st.fov < st._baseFov - FOV_EPSILON
                  THEN [_applyFovZoom(tick, factor, pointer, st._baseFov) EXCEPT !._fovVelocity = factor]
                  ELSE dolly
        ELSE dolly

\* ZoomBy with every zoom-out tick of 'auto' a Dolly step
ZoomByDollyOut(st, scale, isZoomIn, pointer) ==
    LET factor == (SU * SU) \div scale
        distance == Distance(st)
        step == MulDiv(distance, SU - scale, SU)
        tick == Called(st, [op |-> "Tick", isZoomIn |-> isZoomIn, scale |-> scale,
                            pointer |-> pointer, distance |-> distance, fov |-> st.fov,
                            position |-> st.position])
        dolly == [_applyDolly(tick, step, pointer) EXCEPT !._dollyVelocity = step]
    IN  IF st.isOrthographic
        THEN [_applyZoom(tick, factor, pointer) EXCEPT !._zoomVelocity = factor]
        ELSE IF st.zoomMode = "fov"
        THEN [_applyFovZoom(tick, factor, pointer, Undefined) EXCEPT !._fovVelocity = factor]
        ELSE IF st.zoomMode = "auto"
        THEN IF isZoomIn
             THEN IF distance <= st.minDistance + MIN_DISTANCE_BUFFER
                  THEN [_applyFovZoom(tick, factor, pointer, Undefined) EXCEPT !._fovVelocity = factor]
                  ELSE dolly
             ELSE IF FALSE
                  THEN [_applyFovZoom(tick, factor, pointer, st._baseFov) EXCEPT !._fovVelocity = factor]
                  ELSE dolly
        ELSE dolly

\* ZoomBy with a Dolly step in 'fov' mode
ZoomByDollyInFov(st, scale, isZoomIn, pointer) ==
    LET factor == (SU * SU) \div scale
        distance == Distance(st)
        step == MulDiv(distance, SU - scale, SU)
        tick == Called(st, [op |-> "Tick", isZoomIn |-> isZoomIn, scale |-> scale,
                            pointer |-> pointer, distance |-> distance, fov |-> st.fov,
                            position |-> st.position])
        dolly == [_applyDolly(tick, step, pointer) EXCEPT !._dollyVelocity = step]
    IN  IF st.isOrthographic
        THEN [_applyZoom(tick, factor, pointer) EXCEPT !._zoomVelocity = factor]
        ELSE IF st.zoomMode = "fov"
        THEN dolly
        ELSE IF st.zoomMode = "auto"
        THEN IF isZoomIn
             THEN IF distance <= st.minDistance + MIN_DISTANCE_BUFFER
                  THEN [_applyFovZoom(tick, factor, pointer, Undefined) EXCEPT !._fovVelocity = factor]
                  ELSE dolly
             ELSE IF st.fov < st._baseFov - FOV_EPSILON
                  THEN [_applyFovZoom(tick, factor, pointer, st._baseFov) EXCEPT !._fovVelocity = factor]
                  ELSE dolly
        ELSE dolly

\* The Dolly / FovZoom / Zoom choice shared by _applyScrollZoom (lines
\* 1017-1052) and _applyKeyZoom (lines 1061-1096)
ZoomBy(st, scale, isZoomIn, pointer) ==
    LET factor == (SU * SU) \div scale
        distance == Distance(st)
        step == MulDiv(distance, SU - scale, SU)
        tick == Called(st, [op |-> "Tick", isZoomIn |-> isZoomIn, scale |-> scale,
                            pointer |-> pointer, distance |-> distance, fov |-> st.fov,
                            position |-> st.position])
        dolly == [_applyDolly(tick, step, pointer) EXCEPT !._dollyVelocity = step]
    IN  IF st.isOrthographic
        THEN [_applyZoom(tick, factor, pointer) EXCEPT !._zoomVelocity = factor]
        ELSE IF st.zoomMode = "fov"
        THEN [_applyFovZoom(tick, factor, pointer, Undefined) EXCEPT !._fovVelocity = factor]
        ELSE IF st.zoomMode = "auto"
        THEN IF isZoomIn
             THEN IF distance <= st.minDistance + MIN_DISTANCE_BUFFER
                  THEN [_applyFovZoom(tick, factor, pointer, Undefined) EXCEPT !._fovVelocity = factor]
                  ELSE dolly
             ELSE IF st.fov < st._baseFov - FOV_EPSILON
                  THEN [_applyFovZoom(tick, factor, pointer, st._baseFov) EXCEPT !._fovVelocity = factor]
                  ELSE dolly
        ELSE dolly

\* _applyScrollZoom(rawDelta, factorScale, pointer), factorScale = 1 / factorScaleInv
\* and rawDelta in 1/XU
_applyScrollZoom(st, rawDelta, factorScaleInv, pointer) ==
    LET e == MulDiv(MulDiv(st.zoomSpeed, DampingScale(st), SU) * rawDelta, 1, 100 * factorScaleInv * XU)
    IN  ZoomBy(st, ZoomPow(e), rawDelta > 0, pointer)

\* _applyKeyZoom without the dampingScale of a wheel tick
KeyZoomUndamped(st, direction) ==
    LET center == <<0, 0>>
        e == st.keyZoomSpeed * direction
    IN  ZoomBy([st EXCEPT !._wheelPointer = center], ZoomPow(e), direction > 0, center)

\* _applyKeyZoom(direction)
_applyKeyZoom(st, direction) ==
    LET center == <<0, 0>>
        e == MulDiv(st.keyZoomSpeed * direction, DampingScale(st), SU)
    IN  ZoomBy([st EXCEPT !._wheelPointer = center], ZoomPow(e), direction > 0, center)

\* ------------------------------------------------------ pointer handlers
\* hasModifier(event, key): event.mods holds the modifier keys that are down
hasModifier(event, key) == key \in event.mods

\* hasNoModifier(event)
hasNoModifier(event) == event.mods = {}

\* The velocity reset without the dolly channel
AtRestButDolly(st) ==
    [st EXCEPT !._rotateVelocity = <<0, 0>>, !._panVelocity = <<0, 0>>,
               !._zoomVelocity = SU, !._fovVelocity = SU]

\* The five velocity channels at rest (lines 1123-1127, 1148-1152)
AtRest(st) ==
    [st EXCEPT !._rotateVelocity = <<0, 0>>, !._panVelocity = <<0, 0>>,
               !._dollyVelocity = 0, !._zoomVelocity = SU, !._fovVelocity = SU]

\* What a pointer event leaves in this._pointers
Touch(event) == [pointerId |-> event.pointerId, clientX |-> event.clientX, clientY |-> event.clientY]

\* _getPointerDistance(), in 1/XU pixels
PointerDistance(pointers) ==
    LET dx == (pointers[1].clientX - pointers[2].clientX) * XU
        dy == (pointers[1].clientY - pointers[2].clientY) * XU
    IN  ISqrt(dx * dx + dy * dy)

\* _onTouchStart with `start` dispatched for the second pointer as well
TouchStartAgain(st, event) ==
    LET pointers == Append(st._pointers, Touch(event))
        pushed == [st EXCEPT !._pointers = pointers]
    IN  IF Len(pointers) = 1
        THEN dispatchEvent(
                 AtRest([pushed EXCEPT !._drag = [isDragging |-> TRUE, mode |-> st.touchBindings.one,
                                                  x |-> event.clientX * XU, y |-> event.clientY * XU]]),
                 "start")
        ELSE IF Len(pointers) = 2
        THEN dispatchEvent(
                 [pushed EXCEPT !._drag.mode = st.touchBindings.two,
                                !._drag.x = ((pointers[1].clientX + pointers[2].clientX) * XU) \div 2,
                                !._drag.y = ((pointers[1].clientY + pointers[2].clientY) * XU) \div 2,
                                !._pinchDistance = PointerDistance(pointers)],
                 "start")
        ELSE pushed

\* _onTouchStart(event)
_onTouchStart(st, event) ==
    LET pointers == Append(st._pointers, Touch(event))
        pushed == [st EXCEPT !._pointers = pointers]
    IN  IF Len(pointers) = 1
        THEN dispatchEvent(
                 AtRest([pushed EXCEPT !._drag = [isDragging |-> TRUE, mode |-> st.touchBindings.one,
                                                  x |-> event.clientX * XU, y |-> event.clientY * XU]]),
                 "start")
        ELSE IF Len(pointers) = 2
        THEN [pushed EXCEPT !._drag.mode = st.touchBindings.two,
                            !._drag.x = ((pointers[1].clientX + pointers[2].clientX) * XU) \div 2,
                            !._drag.y = ((pointers[1].clientY + pointers[2].clientY) * XU) \div 2,
                            !._pinchDistance = PointerDistance(pointers)]
        ELSE pushed

\* The mode selection with the rotate button tested first
MouseModeRotateFirst(st, event) ==
    LET bindings == st.inputBindings
        panHasModifier == bindings.pan.modifier # "none"
        rotateMode == event.button = bindings.rotate.button
        panMode == event.button = bindings.pan.button
                   /\ (~panHasModifier \/ hasModifier(event, bindings.pan.modifier))
                   /\ ~rotateMode
    IN  IF ~panMode /\ ~rotateMode THEN "none" ELSE IF panMode THEN "pan" ELSE "rotate"

\* The drag mode a mouse pointerdown selects (lines 1112-1117, 1120)
MouseMode(st, event) ==
    LET bindings == st.inputBindings
        panHasModifier == bindings.pan.modifier # "none"
        panMode == event.button = bindings.pan.button
                   /\ (~panHasModifier \/ hasModifier(event, bindings.pan.modifier))
        rotateMode == event.button = bindings.rotate.button /\ ~panMode
    IN  IF ~panMode /\ ~rotateMode THEN "none" ELSE IF panMode THEN "pan" ELSE "rotate"

\* _onPointerDown(event)
_onPointerDown(st, event) ==
    IF ~st.enabled THEN st
    ELSE IF event.pointerType = "touch" THEN _onTouchStart(st, event)
    ELSE IF MouseMode(st, event) = "none" THEN st
    ELSE dispatchEvent(
             AtRest([st EXCEPT !._drag = [isDragging |-> TRUE, mode |-> MouseMode(st, event),
                                          x |-> event.clientX * XU, y |-> event.clientY * XU]]),
             "start")

\* The move of a drag (lines 1177-1183, 1201-1207, 1229-1235)
DragBy(st, dx, dy) ==
    IF st._drag.mode = "rotate"
    THEN [_applyRotate(st, dx, dy) EXCEPT !._rotateVelocity = <<dx, dy>>]
    ELSE [_applyPan(st, dx, dy) EXCEPT !._panVelocity = <<dx, dy>>]

\* The index of the pointer with this id in this._pointers, 0 for findIndex's -1
FindIndex(pointers, pointerId) ==
    LET found == {i \in 1..Len(pointers) : pointers[i].pointerId = pointerId}
    IN  IF found = {} THEN 0 ELSE CHOOSE i \in found : \A j \in found : i <= j

\* The pointer as normalized device coordinates (lines 1216-1219, 1357-1360)
ToNDC(x, y) ==
    <<MulDiv(x, 2 * NU, ElementSize * XU) - NU, NU - MulDiv(y, 2 * NU, ElementSize * XU)>>

\* _onTouchMove(event)
_onTouchMove(st, event) ==
    LET index == FindIndex(st._pointers, event.pointerId)
        pointers == [st._pointers EXCEPT ![index] = Touch(event)]
        stored == [st EXCEPT !._pointers = pointers]
        midX == ((pointers[1].clientX + pointers[2].clientX) * XU) \div 2
        midY == ((pointers[1].clientY + pointers[2].clientY) * XU) \div 2
        dragged2 == DragBy([stored EXCEPT !._drag.x = midX, !._drag.y = midY],
                           midX - st._drag.x, midY - st._drag.y)
        currentDistance == PointerDistance(pointers)
        pinched == [dragged2 EXCEPT !._pinchDistance = currentDistance,
                                    !._wheelPointer = ToNDC(midX, midY)]
    IN  IF index = 0 THEN st
        ELSE IF ~st._drag.isDragging \/ st._drag.mode = "none" THEN stored
        ELSE IF Len(pointers) = 2
        THEN IF st.touchBindings.pinch /\ st.domElement # "null"
             THEN _applyScrollZoom(pinched, currentDistance - st._pinchDistance,
                                   PINCH_SCALE_INV, pinched._wheelPointer)
             ELSE dragged2
        ELSE IF Len(pointers) = 1
        THEN DragBy([stored EXCEPT !._drag.x = event.clientX * XU, !._drag.y = event.clientY * XU],
                    event.clientX * XU - st._drag.x, event.clientY * XU - st._drag.y)
        ELSE stored

\* _onPointerMove without the test of `enabled`
PointerMoveWhileDisabled(st, event) ==
    IF event.pointerType = "touch" THEN _onTouchMove(st, event)
    ELSE IF ~st._drag.isDragging \/ st._drag.mode = "none" THEN st
    ELSE DragBy([st EXCEPT !._drag.x = event.clientX * XU, !._drag.y = event.clientY * XU],
                event.clientX * XU - st._drag.x, event.clientY * XU - st._drag.y)

\* _onPointerMove(event)
_onPointerMove(st, event) ==
    IF ~st.enabled THEN st
    ELSE IF event.pointerType = "touch" THEN _onTouchMove(st, event)
    ELSE IF ~st._drag.isDragging \/ st._drag.mode = "none" THEN st
    ELSE DragBy([st EXCEPT !._drag.x = event.clientX * XU, !._drag.y = event.clientY * XU],
                event.clientX * XU - st._drag.x, event.clientY * XU - st._drag.y)

\* Array.splice(index, 1)
Splice(seq, index) == [i \in 1..(Len(seq) - 1) |-> IF i < index THEN seq[i] ELSE seq[i + 1]]

\* _onTouchEnd with the reference left where the two fingers had it
TouchEndKeepsReference(st, event) ==
    LET index == FindIndex(st._pointers, event.pointerId)
        pointers == IF index # 0 THEN Splice(st._pointers, index) ELSE st._pointers
        removed == [st EXCEPT !._pointers = pointers]
    IN  IF Len(pointers) = 0
        THEN dispatchEvent([removed EXCEPT !._drag.isDragging = FALSE, !._drag.mode = "none"], "end")
        ELSE IF Len(pointers) = 1
        THEN [removed EXCEPT !._drag.mode = st.touchBindings.one]
        ELSE removed

\* _onTouchEnd(event)
_onTouchEnd(st, event) ==
    LET index == FindIndex(st._pointers, event.pointerId)
        pointers == IF index # 0 THEN Splice(st._pointers, index) ELSE st._pointers
        removed == [st EXCEPT !._pointers = pointers]
    IN  IF Len(pointers) = 0
        THEN dispatchEvent([removed EXCEPT !._drag.isDragging = FALSE, !._drag.mode = "none"], "end")
        ELSE IF Len(pointers) = 1
        THEN [removed EXCEPT !._drag.mode = st.touchBindings.one,
                             !._drag.x = pointers[1].clientX * XU,
                             !._drag.y = pointers[1].clientY * XU]
        ELSE removed

\* _onPointerUp(event), the handler of pointerup and pointercancel
_onPointerUp(st, event) ==
    IF event.pointerType = "touch" THEN _onTouchEnd(st, event)
    ELSE IF event.button # st.inputBindings.rotate.button /\ event.button # st.inputBindings.pan.button
    THEN st
    ELSE dispatchEvent([st EXCEPT !._drag.isDragging = FALSE, !._drag.mode = "none"], "end")

\* _onWheel(event)
_onWheel(st, event) ==
    IF ~st.enabled \/ st.domElement = "null" THEN st
    ELSE LET pointer == ToNDC(event.clientX * XU, event.clientY * XU)
         IN  _applyScrollZoom([st EXCEPT !._wheelPointer = pointer], (0 - event.deltaY) * XU, 1, pointer)

\* ------------------------------------------------------------- keyboard
\* this.keys (line 744)
Keys == [LEFT |-> "ArrowLeft", UP |-> "ArrowUp", RIGHT |-> "ArrowRight", BOTTOM |-> "ArrowDown"]

\* 2 * Math.PI, in 1/XU radians
TwoPi == (6283 * XU) \div 1000

\* _matchAction with a modifier matched only when no other one is held
MatchActionAlone(action, event) ==
    IF action = "disabled" THEN FALSE
    ELSE IF action # "bare" THEN event.mods = {action}
    ELSE hasNoModifier(event)

\* _matchAction(action, event): an action is "disabled" (false), "bare" ({})
\* or the name of its modifier
_matchAction(action, event) ==
    IF action = "disabled" THEN FALSE
    ELSE IF action # "bare" THEN hasModifier(event, action)
    ELSE hasNoModifier(event)

\* The rotate branch of _onKeyDown (lines 1320-1333)
KeyRotate(st, code) ==
    LET height == IF st.domElement # "null" THEN ElementSize ELSE 600
        rotateAngle == MulDiv(TwoPi, HostKeyRotateSpeed, height)
        pixelDelta == MulDiv(rotateAngle, RotateSpeedDen, RotateSpeedNum)
        dx == IF code = Keys.LEFT THEN pixelDelta ELSE IF code = Keys.RIGHT THEN 0 - pixelDelta ELSE 0
        dy == IF code = Keys.UP THEN pixelDelta ELSE IF code = Keys.BOTTOM THEN 0 - pixelDelta ELSE 0
    IN  [_applyRotate(st, dx, dy) EXCEPT !._rotateVelocity = <<dx, dy>>]

\* The pan branch of _onKeyDown (lines 1335-1344)
KeyPan(st, code) ==
    LET dx == IF code = Keys.LEFT THEN HostKeyPanSpeed ELSE IF code = Keys.RIGHT THEN 0 - HostKeyPanSpeed ELSE 0
        dy == IF code = Keys.UP THEN HostKeyPanSpeed ELSE IF code = Keys.BOTTOM THEN 0 - HostKeyPanSpeed ELSE 0
    IN  [_applyPan(st, dx, dy) EXCEPT !._panVelocity = <<dx, dy>>]

\* event.preventDefault() left out
preventDefaultNot(st) == st

\* event.preventDefault()
preventDefault(st) == [st EXCEPT !.prevented = @ + 1]

\* _onKeyDown(event)
_onKeyDown(st, event) ==
    LET code == event.code
        bindings == st._keyboardBindings
        isZoom == _matchAction(bindings.zoom, event)
        isRotate == _matchAction(bindings.rotate, event)
        isPan == _matchAction(bindings.pan, event)
        startEnd(s) == dispatchEvent(dispatchEvent(s, "start"), "end")
    IN  IF ~st.enabled \/ ~st.enableKeyboard THEN st
        ELSE IF code \notin {Keys.LEFT, Keys.UP, Keys.RIGHT, Keys.BOTTOM} THEN st
        ELSE IF isZoom
        THEN IF code # Keys.UP /\ code # Keys.BOTTOM THEN st
             ELSE startEnd(_applyKeyZoom(preventDefault(st), IF code = Keys.UP THEN 1 ELSE 0 - 1))
        ELSE IF ~isRotate /\ ~isPan THEN st
        ELSE IF isRotate /\ ~isPan THEN startEnd(KeyRotate(preventDefault(st), code))
        ELSE startEnd(KeyPan(preventDefault(st), code))

\* validateKeyboardBindings without the count of bare actions
ValidateModifiersOnly(bindings) ==
    LET actions == <<bindings.rotate, bindings.pan, bindings.zoom>>
        active == SelectSeq(actions, LAMBDA a : a # "disabled")
    IN  IF Len(active) = 0 THEN "at least one action must be active"
        ELSE IF \E i, j \in 1..Len(active) : i < j /\ active[i] # "bare" /\ active[i] = active[j]
        THEN "duplicate modifier"
        ELSE "none"

\* The loop of validateKeyboardBindings from the i-th active action on (lines
\* 624-638): the fault it throws, "none" if it returns
RECURSIVE ValidateFrom(_, _, _, _)
ValidateFrom(active, i, modifiers, bareCount) ==
    IF i > Len(active)
    THEN IF bareCount > 1 THEN "at most one action can be bare" ELSE "none"
    ELSE IF active[i] # "bare"
    THEN IF active[i] \in modifiers THEN "duplicate modifier"
         ELSE ValidateFrom(active, i + 1, modifiers \cup {active[i]}, bareCount)
    ELSE ValidateFrom(active, i + 1, modifiers, bareCount + 1)

\* validateKeyboardBindings(bindings): the fault it throws, "none" if it returns
validateKeyboardBindings(bindings) ==
    LET actions == <<bindings.rotate, bindings.pan, bindings.zoom>>
        active == SelectSeq(actions, LAMBDA a : a # "disabled")
    IN  IF Len(active) = 0 THEN "at least one action must be active"
        ELSE ValidateFrom(active, 1, {}, 0)

\* set keyboardBindings(value) with the assignment ahead of the validation
AssignBeforeValidate(st, value) == [st EXCEPT !._keyboardBindings = value]

\* set keyboardBindings(value): a throw leaves the bindings as they were
setKeyboardBindings(st, value) ==
    IF validateKeyboardBindings(value) = "none" THEN [st EXCEPT !._keyboardBindings = value] ELSE st

\* stopListenToKeyEvents()
stopListenToKeyEvents(st) ==
    IF st._keyboardElement # "null"
    THEN [st EXCEPT !.keyListeners = @ \ {st._keyboardElement}, !._keyboardElement = "null"]
    ELSE st

\* listenToKeyEvents(domElement)
listenToKeyEvents(st, domElement) ==
    [stopListenToKeyEvents(st) EXCEPT !._keyboardElement = domElement, !.keyListeners = @ \cup {domElement}]

\* ------------------------------------------------------------ lifecycle
\* listeners: the elements that carry the controller's contextmenu, pointer
\* and wheel listeners; keyListeners: those that carry its keydown listener

\* disconnect()
disconnect(st) ==
    IF st.domElement = "null" THEN st
    ELSE [st EXCEPT !.listeners = @ \ {st.domElement}]

\* connect(domElement) adding its listeners without disconnect() before
connectKeepingListeners(st, domElement) ==
    LET el == IF domElement # "undefined" THEN domElement ELSE st.domElement
    IN  IF el = "null" THEN [st EXCEPT !.domElement = el]
        ELSE [st EXCEPT !.domElement = el, !.listeners = @ \cup {el}]

\* connect(domElement?), "undefined" for a call without argument
connect(st, domElement) ==
    LET el == IF domElement # "undefined" THEN domElement ELSE st.domElement
    IN  IF el = "null" THEN [disconnect(st) EXCEPT !.domElement = el]
        ELSE [disconnect(st) EXCEPT !.domElement = el, !.listeners = @ \cup {el}]

\* dispose() leaving the listeners where they are
disposeKeepingListeners(st) == [st EXCEPT !.domElement = "null", !._pointers = <<>>]

\* dispose()
dispose(st) ==
    [disconnect(stopListenToKeyEvents(st)) EXCEPT !.domElement = "null", !._pointers = <<>>]

\* _onContextMenu(event)
_onContextMenu(st, event) == IF st.preventContextMenu THEN preventDefault(st) ELSE st

\* ---------------------------------------------------------------- update
\* Math.pow(base, deltaFrames) taking every call for one whole frame
PowPerCall(base, milliFrames) == base

\* Math.pow(base, deltaFrames) for deltaFrames in 1/1000 frames: whole frames
\* by repeated product, half a frame as the square root, any other fraction
\* of a frame along the chord from 1 to base, rounded down (the power of a
\* base below 1 to a positive exponent is below 1)
RECURSIVE PowFrames(_, _)
PowFrames(base, milliFrames) ==
    IF milliFrames >= 1000
    THEN MulDiv(base, PowFrames(base, milliFrames - 1000), SU)
    ELSE IF milliFrames = 500
    THEN ISqrt(base * SU)
    ELSE IF milliFrames = 0 \/ base = SU
    THEN SU
    ELSE Min(SU - 1, SU - MulDiv(SU - base, milliFrames, 1000))

\* 1 - MathUtils.clamp(this.dampingFactor, MIN_DAMPING, 1) (line 853)
DampingBase(st) == SU - Clamp(st.dampingFactor, MIN_DAMPING, SU)

\* Math.abs(v.x) > STOP_EPSILON || Math.abs(v.y) > STOP_EPSILON, v in 1/unit
Moving2(v, unit) == Abs(v[1]) * STOP_EPSILON_INV > unit \/ Abs(v[2]) * STOP_EPSILON_INV > unit

\* Vector2.multiplyScalar(damping)
Damp2(v, damping) == <<MulDiv(v[1], damping, SU), MulDiv(v[2], damping, SU)>>

\* update without its override of maxFov
MaxFovNotOverridden(st) == Undefined

\* The override of maxFov in update (lines 881-882)
MaxFovOverride(st) == IF st.zoomMode = "auto" /\ st._fovVelocity < SU THEN st._baseFov ELSE Undefined

\* The rotate inertia of update (lines 856-860) on r = [st, changed]
UpdateRotate(r, damping) ==
    IF Moving2(r.st._rotateVelocity, XU)
    THEN [st |-> [_applyRotate(r.st, r.st._rotateVelocity[1], r.st._rotateVelocity[2])
                     EXCEPT !._rotateVelocity = Damp2(@, damping)],
          changed |-> TRUE]
    ELSE r

\* The pan inertia of update (lines 862-866)
UpdatePan(r, damping) ==
    IF Moving2(r.st._panVelocity, XU)
    THEN [st |-> [_applyPan(r.st, r.st._panVelocity[1], r.st._panVelocity[2])
                     EXCEPT !._panVelocity = Damp2(@, damping)],
          changed |-> TRUE]
    ELSE r

\* The dolly inertia of update with the velocity left as it is
UpdateDollyUndamped(r, damping) ==
    IF Abs(r.st._dollyVelocity) * STOP_EPSILON_INV > PU
    THEN [st |-> _applyDolly(r.st, r.st._dollyVelocity, r.st._wheelPointer), changed |-> TRUE]
    ELSE r

\* The dolly inertia of update with the velocity turned round as it is damped
UpdateDollyReversed(r, damping) ==
    IF Abs(r.st._dollyVelocity) * STOP_EPSILON_INV > PU
    THEN [st |-> [_applyDolly(r.st, r.st._dollyVelocity, r.st._wheelPointer)
                     EXCEPT !._dollyVelocity = 0 - MulDiv(@, damping, SU)],
          changed |-> TRUE]
    ELSE r

\* The dolly inertia of update (lines 868-872)
UpdateDolly(r, damping) ==
    IF Abs(r.st._dollyVelocity) * STOP_EPSILON_INV > PU
    THEN [st |-> [_applyDolly(r.st, r.st._dollyVelocity, r.st._wheelPointer)
                     EXCEPT !._dollyVelocity = MulDiv(@, damping, SU)],
          changed |-> TRUE]
    ELSE r

\* The zoom inertia of update (lines 874-878)
UpdateZoom(r, damping) ==
    IF Abs(r.st._zoomVelocity - SU) * ZOOM_STOP_EPSILON_INV > SU
    THEN [st |-> [_applyZoom(r.st, r.st._zoomVelocity, r.st._wheelPointer)
                     EXCEPT !._zoomVelocity = SU + MulDiv(@ - SU, damping, SU)],
          changed |-> TRUE]
    ELSE r

\* The fov inertia of update (lines 880-886)
UpdateFov(r, damping) ==
    IF Abs(r.st._fovVelocity - SU) * ZOOM_STOP_EPSILON_INV > SU
    THEN [st |-> [_applyFovZoom(r.st, r.st._fovVelocity, r.st._wheelPointer, MaxFovOverride(r.st))
                     EXCEPT !._fovVelocity = SU + MulDiv(@ - SU, damping, SU)],
          changed |-> TRUE]
    ELSE r

\* The five channels of update in turn (lines 856-886), each on what the one
\* before it has left
UpdateChannels(st, damping) ==
    Bind(UpdateRotate([st |-> st, changed |-> FALSE], damping), LAMBDA rotated :
    Bind(UpdatePan(rotated, damping), LAMBDA panned :
    Bind(UpdateDolly(panned, damping), LAMBDA dollied :
    Bind(UpdateZoom(dollied, damping), LAMBDA zoomed :
        UpdateFov(zoomed, damping)))))

\* update(deltaSeconds) without the test of the active drag
UpdateWhileDragging(st, milliFrames) ==
    IF ~st.enabled \/ ~st.enableDamping THEN [st |-> st, changed |-> FALSE]
    ELSE
    Bind(Max(1, milliFrames), LAMBDA deltaFrames :
    Bind(PowFrames(DampingBase(st), deltaFrames), LAMBDA damping :
        UpdateChannels(st, damping)))

\* update(deltaSeconds), deltaSeconds * 60 given in 1/1000 frames: [st, changed]
update(st, milliFrames) ==
    IF ~st.enabled \/ ~st.enableDamping \/ st._drag.isDragging THEN [st |-> st, changed |-> FALSE]
    ELSE
    Bind(Max(1, milliFrames), LAMBDA deltaFrames :
    Bind(PowFrames(DampingBase(st), deltaFrames), LAMBDA damping :
        UpdateChannels(st, damping)))

\* resetBaseFov() leaving the base fov as it is
resetBaseFovKept(st) == st

\* resetBaseFov()
resetBaseFov(st) == [st EXCEPT !._baseFov = st.fov]

\* ------------------------------------------------------------- the state
\* st:    the controller and its camera (the fields of `this`, camera.* flat),
\*        with what the last call dispatched, applied and prevented
\* call:  the last call made on the controller, its argument and update's result
\* env:   the mouse buttons and the touch pointers that are down
\* steps: the number of calls made so far
VARIABLES st, call, env, steps

vars == <<st, call, env, steps>>

\* The number of calls a behaviour makes
MaxSteps == 5

\* inputBindings: the constructor's (line 726) and a same-button one
DefaultInputBindings == [rotate |-> [button |-> 0], pan |-> [button |-> 2, modifier |-> "none"]]
SameButtonBindings == [rotate |-> [button |-> 2], pan |-> [button |-> 2, modifier |-> "ctrl"]]

\* touchBindings: the constructor's (line 727) and the opposite one
DefaultTouchBindings == [one |-> "rotate", two |-> "pan", pinch |-> TRUE]
SwappedTouchBindings == [one |-> "pan", two |-> "rotate", pinch |-> FALSE]

\* keyboardBindings: the constructor's (line 740) and one with zoom on ctrl
DefaultKeyboardBindings == [rotate |-> "shift", pan |-> "bare", zoom |-> "disabled"]
ZoomKeyboardBindings == [rotate |-> "shift", pan |-> "bare", zoom |-> "ctrl"]

\* new CADCameraControls(camera, element), the host's property assignments
\* and listenToKeyEvents(window)
Constructed(host) ==
    [isOrthographic |-> host.isOrthographic,
     position |-> <<0, 0, CameraDistance>>,
     quaternion |-> [yaw |-> 0, pitch |-> 0],
     fov |-> IF host.isOrthographic THEN Undefined ELSE CameraFov,
     zoom |-> CameraZoom,
     pivot |-> <<0, 0, 0>>,
     domElement |-> "element",
     listeners |-> {"element"},
     keyListeners |-> {"window"},
     preventContextMenu |-> TRUE,
     enabled |-> TRUE,
     enableDamping |-> host.enableDamping,
     dampingFactor |-> HostDampingFactor,
     inputBindings |-> host.inputBindings,
     touchBindings |-> host.touchBindings,
     minDistance |-> HostMinDistance,
     maxDistance |-> HostMaxDistance,
     minZoom |-> HostMinZoom,
     maxZoom |-> HostMaxZoom,
     zoomMode |-> host.zoomMode,
     zoomSpeed |-> HostZoomSpeed,
     keyZoomSpeed |-> HostKeyZoomSpeed,
     minFov |-> HostMinFov,
     maxFov |-> host.maxFov,
     enableKeyboard |-> TRUE,
     _keyboardBindings |-> host.keyboardBindings,
     _drag |-> [isDragging |-> FALSE, mode |-> "none", x |-> 0, y |-> 0],
     _rotateVelocity |-> <<0, 0>>,
     _panVelocity |-> <<0, 0>>,
     _dollyVelocity |-> 0,
     _zoomVelocity |-> SU,
     _fovVelocity |-> SU,
     _baseFov |-> IF host.isOrthographic THEN 120 * FU ELSE CameraFov,
     _pointers |-> <<>>,
     _pinchDistance |-> 0,
     _wheelPointer |-> <<0, 0>>,
     _keyboardElement |-> "window",
     dispatched |-> <<>>,
     calls |-> <<>>,
     prevented |-> 0,
     notified |-> "none"]

Host(isOrthographic, zoomMode, maxFov, enableDamping, inputBindings, touchBindings, keyboardBindings) ==
    [isOrthographic |-> isOrthographic, zoomMode |-> zoomMode, maxFov |-> maxFov,
     enableDamping |-> enableDamping, inputBindings |-> inputBindings,
     touchBindings |-> touchBindings, keyboardBindings |-> keyboardBindings]

\* A call starts with nothing dispatched, applied or prevented
Begin(s) == [s EXCEPT !.dispatched = <<>>, !.calls = <<>>, !.prevented = 0]

InitWith(hosts) ==
    /\ \E host \in hosts : st = Constructed(host)
    /\ call = [name |-> "constructor", event |-> [none |-> TRUE], changed |-> FALSE]
    /\ env = [buttons |-> {}, fingers |-> {}]
    /\ steps = 0

\* Fewer than bound calls have been made
Within(bound) == steps < bound

Step(name, event, next, changed) ==
    /\ steps < MaxSteps
    /\ st' = next
    /\ call' = [name |-> name, event |-> event, changed |-> changed]
    /\ steps' = steps + 1

\* The pointers an event of this type can come from: a button goes down when
\* it is up and up when it is down, a finger touches when it is off the
\* screen and moves or lifts when it is on it; the mouse moves at any time
CanPress(event) ==
    IF event.pointerType = "touch" THEN event.pointerId \notin env.fingers
    ELSE event.button \notin env.buttons

CanRelease(event) ==
    IF event.pointerType = "touch" THEN event.pointerId \in env.fingers
    ELSE event.button \in env.buttons

CanMove(event) == event.pointerType = "touch" => event.pointerId \in env.fingers

Pressed(event) ==
    IF event.pointerType = "touch" THEN [env EXCEPT !.fingers = @ \cup {event.pointerId}]
    ELSE [env EXCEPT !.buttons = @ \cup {event.button}]

Released(event) ==
    IF event.pointerType = "touch" THEN [env EXCEPT !.fingers = @ \ {event.pointerId}]
    ELSE [env EXCEPT !.buttons = @ \ {event.button}]

Wheel(events) ==
    \E event \in events :
        /\ st.domElement # "null"
        /\ Step("wheel", event, _onWheel(Begin(st), event), FALSE)
        /\ UNCHANGED env

\* A keydown event on the window: _onKeyDown runs if the controller listens
\* there (line 819)
KeyDown(events) ==
    \E event \in events :
        /\ Step("keydown", event,
                IF "window" \in st.keyListeners THEN _onKeyDown(Begin(st), event) ELSE Begin(st),
                FALSE)
        /\ UNCHANGED env

PointerDown(events) ==
    \E event \in events :
        /\ st.domElement # "null" /\ CanPress(event)
        /\ Step("pointerdown", event, _onPointerDown(Begin(st), event), FALSE)
        /\ env' = Pressed(event)

PointerMove(events) ==
    \E event \in events :
        /\ st.domElement # "null" /\ CanMove(event)
        /\ Step("pointermove", event, _onPointerMove(Begin(st), event), FALSE)
        /\ UNCHANGED env

PointerUp(events) ==
    \E event \in events :
        /\ st.domElement # "null" /\ CanRelease(event)
        /\ Step("pointerup", event, _onPointerUp(Begin(st), event), FALSE)
        /\ env' = Released(event)

Update(frames) ==
    \E milliFrames \in frames :
        LET r == update(Begin(st), milliFrames)
        IN  /\ Step("update", [deltaFrames |-> milliFrames], r.st, r.changed)
            /\ UNCHANGED env

ResetBaseFov ==
    /\ Step("resetBaseFov", [none |-> TRUE], resetBaseFov(Begin(st)), FALSE)
    /\ UNCHANGED env

\* controls.enabled = value
SetEnabled(values) ==
    \E value \in values :
        /\ Step("enabled", [value |-> value], [Begin(st) EXCEPT !.enabled = value], FALSE)
        /\ UNCHANGED env

\* controls.enableKeyboard = value
SetEnableKeyboard(values) ==
    \E value \in values :
        /\ Step("enableKeyboard", [value |-> value], [Begin(st) EXCEPT !.enableKeyboard = value], FALSE)
        /\ UNCHANGED env

\* controls.keyboardBindings = value; call.event keeps the value assigned and
\* the fault the assignment has thrown
SetKeyboardBindings(values) ==
    \E value \in values :
        /\ Step("keyboardBindings", [value |-> value, thrown |-> validateKeyboardBindings(value)],
                setKeyboardBindings(Begin(st), value), FALSE)
        /\ UNCHANGED env

ListenToKeyEvents(elements) ==
    \E domElement \in elements :
        /\ Step("listenToKeyEvents", [domElement |-> domElement],
                listenToKeyEvents(Begin(st), domElement), FALSE)
        /\ UNCHANGED env

StopListenToKeyEvents ==
    /\ Step("stopListenToKeyEvents", [none |-> TRUE], stopListenToKeyEvents(Begin(st)), FALSE)
    /\ UNCHANGED env

\* ------------------------------------------------- zooming: SpecZoom
\* Perspective cameras in every zoomMode, with maxFov at DEFAULT_MAX_FOV or
\* below the camera's fov, and an orthographic camera; wheel ticks at the
\* centre and at the right edge of the element, the zoom keys, a pinch
\* between two fingers, update() and resetBaseFov()
ZoomHost(isOrthographic, zoomMode, maxFov, enableDamping) ==
    Host(isOrthographic, zoomMode, maxFov, enableDamping,
         DefaultInputBindings, DefaultTouchBindings, ZoomKeyboardBindings)

ZoomHosts ==
    {ZoomHost(FALSE, "dolly", 120 * FU, TRUE),
     ZoomHost(FALSE, "fov", 120 * FU, TRUE),
     ZoomHost(FALSE, "fov", 30 * FU, FALSE),
     ZoomHost(FALSE, "auto", 120 * FU, TRUE),
     ZoomHost(FALSE, "auto", 30 * FU, TRUE),
     ZoomHost(TRUE, "auto", 120 * FU, TRUE)}

TouchEvent(pointerId, clientX) ==
    [pointerType |-> "touch", pointerId |-> pointerId, button |-> 0, mods |-> {},
     clientX |-> clientX, clientY |-> 4]

MouseEvent(button, mods, clientX) ==
    [pointerType |-> "mouse", pointerId |-> 0, button |-> button, mods |-> mods,
     clientX |-> clientX, clientY |-> 4]

ZoomWheelEvents == {[deltaY |-> d, clientX |-> x, clientY |-> 4] : d \in {0 - 1, 1}, x \in {4, 8}}

ZoomKeyEvents == {[code |-> c, mods |-> {"ctrl"}] : c \in {"ArrowUp", "ArrowDown"}}

ZoomTouchDowns == {TouchEvent(1, 2), TouchEvent(2, 4)}

ZoomTouchMoves == {TouchEvent(2, 4), TouchEvent(2, 8)}

ZoomTouchUps == {TouchEvent(2, 4)}

InitZoom == InitWith(ZoomHosts)

NextZoom ==
    \/ Wheel(ZoomWheelEvents)
    \/ KeyDown(ZoomKeyEvents)
    \/ PointerDown(ZoomTouchDowns)
    \/ PointerMove(ZoomTouchMoves)
    \/ PointerUp(ZoomTouchUps)
    \/ Update({1000})
    \/ ResetBaseFov

SpecZoom == InitZoom /\ [][NextZoom]_vars

\* ------------------------------------------------- the base fov: SpecFov
\* The perspective camera in 'auto' and in 'fov' under every kind of call:
\* wheel ticks, the zoom, pan and rotate keys, a mouse drag, a touch drag and
\* pinch, update() and resetBaseFov()
FovHosts ==
    {ZoomHost(FALSE, "auto", 120 * FU, TRUE),
     ZoomHost(FALSE, "auto", 30 * FU, TRUE),
     ZoomHost(FALSE, "fov", 120 * FU, TRUE)}

FovWheelEvents == {[deltaY |-> d, clientX |-> 4, clientY |-> 4] : d \in {0 - 1, 1}}

FovKeyEvents ==
    {[code |-> "ArrowDown", mods |-> {"ctrl"}],
     [code |-> "ArrowLeft", mods |-> {}],
     [code |-> "ArrowLeft", mods |-> {"shift"}]}

InitFov == InitWith(FovHosts)

NextFov ==
    \/ Wheel(FovWheelEvents)
    \/ KeyDown(FovKeyEvents)
    \/ PointerDown({MouseEvent(0, {}, 4), TouchEvent(1, 2), TouchEvent(2, 4)})
    \/ PointerMove({MouseEvent(0, {}, 6), TouchEvent(2, 8)})
    \/ PointerUp({MouseEvent(0, {}, 6), TouchEvent(2, 4)})
    \/ Update({1000})
    \/ ResetBaseFov

SpecFov == InitFov /\ [][NextFov]_vars

\* ------------------------------------------------- dragging: Spec
\* A perspective and an orthographic camera under the constructor's bindings
\* and under bindings that put rotate and pan on one button; the three mouse
\* buttons with and without ctrl, two fingers, a wheel tick and update()
DragHosts ==
    {Host(FALSE, "dolly", 120 * FU, TRUE, DefaultInputBindings, DefaultTouchBindings, DefaultKeyboardBindings),
     Host(FALSE, "dolly", 120 * FU, TRUE, SameButtonBindings, SwappedTouchBindings, DefaultKeyboardBindings),
     Host(FALSE, "auto", 120 * FU, FALSE, SameButtonBindings, DefaultTouchBindings, DefaultKeyboardBindings),
     Host(TRUE, "dolly", 120 * FU, TRUE, DefaultInputBindings, SwappedTouchBindings, DefaultKeyboardBindings)}

DragWheelEvents == {[deltaY |-> 0 - 1, clientX |-> 4, clientY |-> 4]}

MouseDowns == {MouseEvent(b, m, 4) : b \in {0, 1, 2}, m \in {{}, {"ctrl"}}}

MouseMoves == {MouseEvent(0, {}, x) : x \in {4, 6}}

MouseUps == {MouseEvent(b, {}, 6) : b \in {0, 1, 2}}

TouchDowns == {TouchEvent(1, 2), TouchEvent(2, 6)}

TouchMoves == {TouchEvent(1, 4), TouchEvent(2, 8)}

TouchUps == {TouchEvent(1, 4), TouchEvent(2, 8)}

Init == InitWith(DragHosts)

Next ==
    \/ Wheel(DragWheelEvents)
    \/ PointerDown(MouseDowns \cup TouchDowns)
    \/ PointerMove(MouseMoves \cup TouchMoves)
    \/ PointerUp(MouseUps \cup TouchUps)
    \/ Update({1000})

Spec == Init /\ [][Next]_vars

\* ------------------------------------------------- the keyboard: SpecKeys
\* The constructor's keyboardBindings, bindings with zoom on ctrl, and
\* bindings with a bare zoom whose rotate and pan modifiers can be held
\* together; the four arrow keys and another key under every combination of
\* shift and ctrl; a wheel tick that leaves inertia; enabled, enableKeyboard
\* and the listener switched off and on
BareZoomKeyboardBindings == [rotate |-> "shift", pan |-> "ctrl", zoom |-> "bare"]

KeyHost(isOrthographic, keyboardBindings) ==
    Host(isOrthographic, "dolly", 120 * FU, TRUE,
         DefaultInputBindings, DefaultTouchBindings, keyboardBindings)

KeyHosts ==
    {KeyHost(FALSE, DefaultKeyboardBindings),
     KeyHost(FALSE, ZoomKeyboardBindings),
     KeyHost(FALSE, BareZoomKeyboardBindings),
     KeyHost(TRUE, ZoomKeyboardBindings)}

KeyEvents ==
    {[code |-> c, mods |-> m] :
        c \in {"ArrowLeft", "ArrowUp", "ArrowRight", "ArrowDown", "KeyA"},
        m \in SUBSET {"shift", "ctrl"}}

\* The number of calls a behaviour of SpecKeys makes
KeySteps == 3

InitKeys == InitWith(KeyHosts)

NextKeys ==
    \/ Within(KeySteps) /\ KeyDown(KeyEvents)
    \/ Within(KeySteps) /\ Wheel(DragWheelEvents)
    \/ Within(KeySteps) /\ Update({1000})
    \/ Within(KeySteps) /\ SetEnabled(BOOLEAN)
    \/ Within(KeySteps) /\ SetEnableKeyboard(BOOLEAN)
    \/ Within(KeySteps) /\ ListenToKeyEvents({"window", "other"})
    \/ Within(KeySteps) /\ StopListenToKeyEvents

SpecKeys == InitKeys /\ [][NextKeys]_vars

\* ------------------------------------------------- bindings: SpecBindings
\* Every keyboardBindings value assigned to a controller that has the
\* constructor's, and the pan and rotate keys
KeyboardActions == {"disabled", "bare", "ctrl", "meta", "alt", "shift"}

AllKeyboardBindings == [rotate : KeyboardActions, pan : KeyboardActions, zoom : KeyboardActions]

BindingKeyEvents == {[code |-> "ArrowLeft", mods |-> m] : m \in {{}, {"shift"}}}

\* The number of calls a behaviour of SpecBindings makes
BindingSteps == 2

InitBindings == InitWith({KeyHost(FALSE, DefaultKeyboardBindings)})

NextBindings ==
    \/ Within(BindingSteps) /\ SetKeyboardBindings(AllKeyboardBindings)
    \/ Within(BindingSteps) /\ KeyDown(BindingKeyEvents)

SpecBindings == InitBindings /\ [][NextBindings]_vars

\* ------------------------------------------------- enabled: SpecEnabled
\* A perspective camera with and without damping; a wheel tick, the pan key,
\* a mouse drag, a one-finger drag and update(), with `enabled` switched off
\* and on in between
EnabledHosts ==
    {Host(FALSE, "dolly", 120 * FU, d, DefaultInputBindings, DefaultTouchBindings,
          DefaultKeyboardBindings) : d \in BOOLEAN}

EnabledKeyEvents == {[code |-> "ArrowLeft", mods |-> {}]}

EnabledDowns == {MouseEvent(0, {}, 4), TouchEvent(1, 2)}

EnabledMoves == {MouseEvent(0, {}, 6), TouchEvent(1, 4)}

EnabledUps == {MouseEvent(0, {}, 6), TouchEvent(1, 4)}

\* The number of calls a behaviour of SpecEnabled makes
EnabledSteps == 5

InitEnabled == InitWith(EnabledHosts)

NextEnabled ==
    \/ Within(EnabledSteps) /\ Wheel(DragWheelEvents)
    \/ Within(EnabledSteps) /\ KeyDown(EnabledKeyEvents)
    \/ Within(EnabledSteps) /\ PointerDown(EnabledDowns)
    \/ Within(EnabledSteps) /\ PointerMove(EnabledMoves)
    \/ Within(EnabledSteps) /\ PointerUp(EnabledUps)
    \/ Within(EnabledSteps) /\ Update({1000})
    \/ Within(EnabledSteps) /\ SetEnabled(BOOLEAN)

SpecEnabled == InitEnabled /\ [][NextEnabled]_vars

\* ------------------------------------------------- touch: SpecTouch
\* Touch only, with `enabled` left true: up to three fingers that touch, move
\* and lift in any order, under the constructor's touchBindings and under
\* the opposite ones, and update()
TouchHosts ==
    {Host(FALSE, "dolly", 120 * FU, TRUE, DefaultInputBindings, t, DefaultKeyboardBindings) :
        t \in {DefaultTouchBindings, SwappedTouchBindings}}

FingerDowns == {TouchEvent(1, 2), TouchEvent(2, 6), TouchEvent(3, 5)}

FingerMoves == {TouchEvent(1, 3), TouchEvent(1, 4), TouchEvent(2, 8), TouchEvent(3, 4)}

FingerUps == {TouchEvent(1, 3), TouchEvent(2, 8), TouchEvent(3, 4)}

InitTouch == InitWith(TouchHosts)

NextTouch ==
    \/ PointerDown(FingerDowns)
    \/ PointerMove(FingerMoves)
    \/ PointerUp(FingerUps)
    \/ Update({1000})

SpecTouch == InitTouch /\ [][NextTouch]_vars

\* ------------------------------------------------- inertia: SpecInertia
\* Damped cameras of each kind with dampingFactor at 0 (below MIN_DAMPING),
\* at a half and at 1; the inputs that leave inertia (a wheel tick, the pan
\* and the rotate key, a mouse drag) and update() at 60 and at 30 frames a
\* second
InertiaHosts ==
    {ZoomHost(FALSE, "dolly", 120 * FU, TRUE),
     ZoomHost(FALSE, "fov", 120 * FU, TRUE),
     ZoomHost(TRUE, "dolly", 120 * FU, TRUE)}

\* controls.dampingFactor = value
WithDampingFactor(s, value) == [s EXCEPT !.dampingFactor = value]

DampingFactors == {0, SU \div 2, SU}

InertiaWheelEvents == {[deltaY |-> d, clientX |-> 4, clientY |-> 4] : d \in {0 - 1, 1}}

InertiaKeyEvents == {[code |-> "ArrowLeft", mods |-> m] : m \in {{}, {"shift"}}}

InertiaDowns == {MouseEvent(0, {}, 4)}

InertiaMoves == {MouseEvent(0, {}, 6)}

InertiaUps == {MouseEvent(0, {}, 6)}

\* deltaSeconds * 60 at 60 and at 30 frames a second, in 1/1000 frames
InertiaFrames == {1000, 2000}

\* The number of calls of a behaviour of SpecInertia
InertiaSteps == 4

\* How far a call has moved the camera from a to b: the squared length of the
\* step in position, the squared angle turned, and the change of zoom and fov
Displacement(a, b) ==
    [position |-> Dot3(Sub3(b.position, a.position), Sub3(b.position, a.position)),
     angle |-> (b.quaternion.yaw - a.quaternion.yaw) * (b.quaternion.yaw - a.quaternion.yaw)
               + (b.quaternion.pitch - a.quaternion.pitch) * (b.quaternion.pitch - a.quaternion.pitch),
     zoom |-> Abs(b.zoom - a.zoom),
     fov |-> Abs(b.fov - a.fov)]

\* update(deltaSeconds) on a frame of the animation loop; call.event keeps
\* the delta and how far the call has moved the camera
Frame(frames) ==
    \E milliFrames \in frames :
        LET r == update(Begin(st), milliFrames)
        IN  /\ Step("update", [deltaFrames |-> milliFrames, moved |-> Displacement(st, r.st)],
                    r.st, r.changed)
            /\ UNCHANGED env

InitInertia ==
    /\ \E host \in InertiaHosts, dampingFactor \in DampingFactors :
           st = WithDampingFactor(Constructed(host), dampingFactor)
    /\ call = [name |-> "constructor", event |-> [none |-> TRUE], changed |-> FALSE]
    /\ env = [buttons |-> {}, fingers |-> {}]
    /\ steps = 0

NextInertia ==
    \/ Within(InertiaSteps) /\ Wheel(InertiaWheelEvents)
    \/ Within(InertiaSteps) /\ KeyDown(InertiaKeyEvents)
    \/ Within(InertiaSteps) /\ PointerDown(InertiaDowns)
    \/ Within(InertiaSteps) /\ PointerMove(InertiaMoves)
    \/ Within(InertiaSteps) /\ PointerUp(InertiaUps)
    \/ Within(InertiaSteps) /\ Frame(InertiaFrames)

SpecInertia == InitInertia /\ [][NextInertia]_vars

\* ------------------------------------------------- the loop: SpecLoop
\* The same cameras; LoopSteps input events (wheel ticks and key presses),
\* and after the last of them the host's animation loop: update() on every
\* frame for as long as the page lives, its calls not counted in steps.  At
\* dampingFactor 0 the camera is the orthographic one: the pan inertia of a
\* perspective camera would carry it beyond the range of the numbers here.
LoopSteps == 2

InitLoop ==
    /\ \E host \in InertiaHosts, dampingFactor \in DampingFactors :
           /\ dampingFactor = 0 => host.isOrthographic
           /\ st = WithDampingFactor(Constructed(host), dampingFactor)
    /\ call = [name |-> "constructor", event |-> [none |-> TRUE], changed |-> FALSE]
    /\ env = [buttons |-> {}, fingers |-> {}]
    /\ steps = 0

\* The input events of the behaviour are over
InputOver == steps = LoopSteps

Loop(frames) ==
    \E milliFrames \in frames :
        /\ InputOver
        /\ \E r \in {update(Begin(st), milliFrames)} :
               /\ st' = r.st
               /\ call' = [name |-> "update",
                           event |-> [deltaFrames |-> milliFrames, moved |-> Displacement(st, r.st)],
                           changed |-> r.changed]
        /\ UNCHANGED <<env, steps>>

NextLoop ==
    \/ Within(LoopSteps) /\ Wheel(InertiaWheelEvents)
    \/ Within(LoopSteps) /\ KeyDown(InertiaKeyEvents)
    \/ Loop(InertiaFrames)

\* requestAnimationFrame keeps the loop running: a frame that can be taken is
\* taken
SpecLoop == InitLoop /\ [][NextLoop]_vars /\ WF_vars(Loop(InertiaFrames))

\* ------------------------------------------------- key zoom: SpecKeyZoom
\* Cameras of both kinds, the perspective one in every zoomMode, damped and
\* undamped, with keyZoomSpeed = zoomSpeed and zoom on ctrl + ArrowUp/Down;
\* wheel ticks of deltaY = -100 and 100 at the centre of the element and off
\* it, the zoom keys and update()
KeyZoomHosts ==
    {ZoomHost(c[1], c[2], 120 * FU, d) :
        c \in {<<FALSE, "dolly">>, <<FALSE, "fov">>, <<FALSE, "auto">>, <<TRUE, "dolly">>},
        d \in BOOLEAN}

\* controls.zoomSpeed = controls.keyZoomSpeed = value, in quarter half-lives
WithZoomSpeeds(s, value) == [s EXCEPT !.zoomSpeed = value, !.keyZoomSpeed = value]

KeyZoomSpeeds == {4, 8}

\* A wheel tick of one notch (deltaY = -100 * direction) at the centre
CentreTick(direction) == [deltaY |-> 0 - 100 * direction, clientX |-> ElementSize \div 2, clientY |-> ElementSize \div 2]

\* A press of the zoom key of the direction
ZoomKey(direction) == [code |-> IF direction > 0 THEN "ArrowUp" ELSE "ArrowDown", mods |-> {"ctrl"}]

KeyZoomWheelEvents == {CentreTick(1), CentreTick(0 - 1), [deltaY |-> 0 - 100, clientX |-> 8, clientY |-> 4]}

InitKeyZoom ==
    /\ \E host \in KeyZoomHosts, speed \in KeyZoomSpeeds :
           st = WithZoomSpeeds(Constructed(host), speed)
    /\ call = [name |-> "constructor", event |-> [none |-> TRUE], changed |-> FALSE]
    /\ env = [buttons |-> {}, fingers |-> {}]
    /\ steps = 0

NextKeyZoom ==
    \/ Wheel(KeyZoomWheelEvents)
    \/ KeyDown({ZoomKey(1), ZoomKey(0 - 1)})
    \/ Update({1000})

SpecKeyZoom == InitKeyZoom /\ [][NextKeyZoom]_vars

\* ------------------------------------------------- lifecycle: SpecLifecycle
\* A controller constructed with an element or without one, listening for
\* keys on the window; connect with each of two elements and without
\* argument, disconnect, dispose and listenToKeyEvents in any order, the
\* host moving the pivot, and in between contextmenu, mouse, touch and wheel
\* events on either element, the pan key and update()
Elements == {"element", "other"}

\* new CADCameraControls(camera, domElement?), "null" for none
ConstructedOn(host, domElement) ==
    IF domElement = "null"
    THEN [Constructed(host) EXCEPT !.domElement = "null", !.listeners = {}]
    ELSE [Constructed(host) EXCEPT !.domElement = domElement, !.listeners = {domElement}]

\* An event with the element it is dispatched on
On(target, event) == [target |-> target] @@ event

\* The element of the event carries the controller's listeners
Handled(s, event) == event.target \in s.listeners

LifeWheelEvents == {On(t, [deltaY |-> 0 - 1, clientX |-> 4, clientY |-> 4]) : t \in Elements}

LifeDowns == {On(t, e) : t \in Elements, e \in {MouseEvent(0, {}, 4), TouchEvent(1, 2)}}

LifeMoves == {On(t, e) : t \in Elements, e \in {MouseEvent(0, {}, 6), TouchEvent(1, 4)}}

LifeUps == {On(t, e) : t \in Elements, e \in {MouseEvent(0, {}, 6), TouchEvent(1, 4)}}

LifeMenuEvents == {On(t, [clientX |-> 4, clientY |-> 4]) : t \in Elements}

LifeKeyEvents == {[code |-> "ArrowLeft", mods |-> {}]}

\* controls.pivot.set(x, y, z)
LifePivots == {<<0, 0, 0>>, <<PU, 0, 0 - 2 * PU>>}

\* The number of calls a behaviour of SpecLifecycle makes
LifeSteps == 5

Connect(elements) ==
    \E domElement \in elements :
        /\ Step("connect", [domElement |-> domElement], connect(Begin(st), domElement), FALSE)
        /\ UNCHANGED env

\* disconnect(), with the elements that carried the listeners before it
Disconnect ==
    /\ Step("disconnect", [attached |-> st.listeners], disconnect(Begin(st)), FALSE)
    /\ UNCHANGED env

Dispose ==
    /\ Step("dispose", [attached |-> st.listeners \cup st.keyListeners], dispose(Begin(st)), FALSE)
    /\ UNCHANGED env

\* The host moves the pivot (while the camera's axes are the world's, where
\* position, the camera's offset from the pivot, is in world coordinates)
SetPivot(pivots) ==
    \E pivot \in pivots :
        /\ st.quaternion = [yaw |-> 0, pitch |-> 0] /\ pivot # st.pivot
        /\ Step("pivot", [value |-> pivot],
                [Begin(st) EXCEPT !.pivot = pivot, !.position = Sub3(Add3(@, st.pivot), pivot)], FALSE)
        /\ UNCHANGED env

ContextMenuOn(events) ==
    \E event \in events :
        /\ Step("contextmenu", event,
                IF Handled(st, event) THEN _onContextMenu(Begin(st), event) ELSE Begin(st), FALSE)
        /\ UNCHANGED env

WheelOn(events) ==
    \E event \in events :
        /\ Step("wheel", event,
                IF Handled(st, event) THEN _onWheel(Begin(st), event) ELSE Begin(st), FALSE)
        /\ UNCHANGED env

PointerDownOn(events) ==
    \E event \in events :
        /\ CanPress(event)
        /\ Step("pointerdown", event,
                IF Handled(st, event) THEN _onPointerDown(Begin(st), event) ELSE Begin(st), FALSE)
        /\ env' = Pressed(event)

PointerMoveOn(events) ==
    \E event \in events :
        /\ CanMove(event)
        /\ Step("pointermove", event,
                IF Handled(st, event) THEN _onPointerMove(Begin(st), event) ELSE Begin(st), FALSE)
        /\ UNCHANGED env

PointerUpOn(events) ==
    \E event \in events :
        /\ CanRelease(event)
        /\ Step("pointerup", event,
                IF Handled(st, event) THEN _onPointerUp(Begin(st), event) ELSE Begin(st), FALSE)
        /\ env' = Released(event)

InitLifecycle ==
    /\ \E domElement \in {"null", "element"} :
           st = ConstructedOn(ZoomHost(FALSE, "dolly", 120 * FU, TRUE), domElement)
    /\ call = [name |-> "constructor", event |-> [none |-> TRUE], changed |-> FALSE]
    /\ env = [buttons |-> {}, fingers |-> {}]
    /\ steps = 0

NextLifecycle ==
    \/ Within(LifeSteps) /\ Connect(Elements \cup {"undefined"})
    \/ Within(LifeSteps) /\ Disconnect
    \/ Within(LifeSteps) /\ Dispose
    \/ Within(LifeSteps) /\ ListenToKeyEvents({"window"})
    \/ Within(LifeSteps) /\ SetPivot(LifePivots)
    \/ Within(LifeSteps) /\ ContextMenuOn(LifeMenuEvents)
    \/ Within(LifeSteps) /\ WheelOn(LifeWheelEvents)
    \/ Within(LifeSteps) /\ PointerDownOn(LifeDowns)
    \/ Within(LifeSteps) /\ PointerMoveOn(LifeMoves)
    \/ Within(LifeSteps) /\ PointerUpOn(LifeUps)
    \/ Within(LifeSteps) /\ KeyDown(LifeKeyEvents)
    \/ Within(LifeSteps) /\ Update({1000})

SpecLifecycle == InitLifecycle /\ [][NextLifecycle]_vars

\* ------------------------------------------------- panning: SpecPan
\* Damped cameras of both kinds, the perspective one in every zoomMode, under
\* the constructor's touchBindings (two-finger pan) and the opposite ones
\* (one-finger pan); the pan button of the mouse, two fingers, the pan and
\* the rotate key and update()
PanHosts ==
    {Host(c[1], c[2], 120 * FU, TRUE, DefaultInputBindings, t, DefaultKeyboardBindings) :
        c \in {<<FALSE, "dolly">>, <<FALSE, "fov">>, <<FALSE, "auto">>, <<TRUE, "dolly">>},
        t \in {DefaultTouchBindings, SwappedTouchBindings}}

PanDowns == {MouseEvent(2, {}, 4), TouchEvent(1, 2), TouchEvent(2, 6)}

PanMoves == {MouseEvent(0, {}, 6), TouchEvent(1, 4), TouchEvent(2, 8)}

PanUps == {MouseEvent(2, {}, 6), TouchEvent(1, 4), TouchEvent(2, 8)}

InitPan == InitWith(PanHosts)

NextPan ==
    \/ KeyDown(InertiaKeyEvents)
    \/ PointerDown(PanDowns)
    \/ PointerMove(PanMoves)
    \/ PointerUp(PanUps)
    \/ Update({1000})

SpecPan == InitPan /\ [][NextPan]_vars

\* ------------------------------------------------- rotation: SpecRotate
\* _applyRotate in world coordinates, as the source computes it with
\* quaternions: st is the camera's position, the pivot and camera.quaternion
\* (x, y, z, w in 1/SU); pivots at and off the origin, cameras that look at
\* the pivot and past it, and the rotate deltas of a drag, of a rotate key and
\* of decaying inertia, one after another

\* const WORLD_UP = new Vector3(0, 1, 0), in 1/SU
WORLD_UP == <<0, SU, 0>>

\* const CAMERA_RIGHT = new Vector3(1, 0, 0), in 1/SU
CAMERA_RIGHT == <<SU, 0, 0>>

\* Math.sin(angle / 2) for an angle in 1/XU radians, in 1/SU: the series to
\* the seventh power
SinHalf(angle) ==
    Bind(MulDiv(angle, SU, 2 * XU), LAMBDA t1 :
    Bind(MulDiv(t1, angle * angle, 6 * 4 * XU * XU), LAMBDA t3 :
    Bind(MulDiv(t3, angle * angle, 20 * 4 * XU * XU), LAMBDA t5 :
        t1 - t3 + t5 - MulDiv(t5, angle * angle, 42 * 4 * XU * XU))))

\* Math.cos(angle / 2), likewise, to the sixth power
CosHalf(angle) ==
    Bind(MulDiv(SU, angle * angle, 2 * 4 * XU * XU), LAMBDA t2 :
    Bind(MulDiv(t2, angle * angle, 12 * 4 * XU * XU), LAMBDA t4 :
        SU - t2 + t4 - MulDiv(t4, angle * angle, 30 * 4 * XU * XU)))

\* Quaternion.setFromAxisAngle(axis, angle): axis a unit vector in 1/SU
setFromAxisAngle(axis, angle) ==
    Bind(SinHalf(angle), LAMBDA s :
        <<MulDiv(axis[1], s, SU), MulDiv(axis[2], s, SU), MulDiv(axis[3], s, SU), CosHalf(angle)>>)

\* Vector3.cross
Cross3(a, b) ==
    <<a[2] * b[3] - a[3] * b[2], a[3] * b[1] - a[1] * b[3], a[1] * b[2] - a[2] * b[1]>>

\* The products of 1/SU factors, rounded to the nearest unit
Round3(v) == <<(2 * v[1] + SU) \div (2 * SU), (2 * v[2] + SU) \div (2 * SU), (2 * v[3] + SU) \div (2 * SU)>>

\* Vector3.applyQuaternion(q): v + w * t + q.xyz x t with t = 2 * q.xyz x v
applyQuaternion(v, q) ==
    Bind(Round3(Cross3(<<q[1], q[2], q[3]>>, <<2 * v[1], 2 * v[2], 2 * v[3]>>)), LAMBDA t :
        Add3(v, Round3(Add3(<<q[4] * t[1], q[4] * t[2], q[4] * t[3]>>, Cross3(<<q[1], q[2], q[3]>>, t)))))

\* Vector3.normalize(), to a unit vector in 1/SU
normalize(v) == Bind(Length3(v), LAMBDA length : IF length = 0 THEN v ELSE Scale3(v, SU, length))

\* Quaternion.premultiply(p): p * q
premultiply(q, p) ==
    <<(p[1] * q[4] + p[4] * q[1] + p[2] * q[3] - p[3] * q[2]) \div SU,
      (p[2] * q[4] + p[4] * q[2] + p[3] * q[1] - p[1] * q[3]) \div SU,
      (p[3] * q[4] + p[4] * q[3] + p[1] * q[2] - p[2] * q[1]) \div SU,
      (p[4] * q[4] - p[1] * q[1] - p[2] * q[2] - p[3] * q[3]) \div SU>>

\* _applyRotate with the camera's position taken for the offset from the pivot
RotateAboutOrigin(w, dx, dy) ==
    Bind(w.position, LAMBDA offset :
    Bind(setFromAxisAngle(WORLD_UP, MulDiv(0 - dx, RotateSpeedNum, RotateSpeedDen)), LAMBDA yawQ :
    Bind(premultiply(w.quaternion, yawQ), LAMBDA orientation :
    Bind(normalize(applyQuaternion(CAMERA_RIGHT, orientation)), LAMBDA rightAxis :
    Bind(setFromAxisAngle(rightAxis, MulDiv(0 - dy, RotateSpeedNum, RotateSpeedDen)), LAMBDA pitchQ :
        [position |-> Add3(w.pivot, applyQuaternion(applyQuaternion(offset, yawQ), pitchQ)),
         pivot |-> w.pivot,
         quaternion |-> premultiply(orientation, pitchQ)])))))

\* _applyRotate(dx, dy) (lines 891-905) on w = [position, pivot, quaternion]
RotateAboutPivot(w, dx, dy) ==
    Bind(Sub3(w.position, w.pivot), LAMBDA offset :
    Bind(setFromAxisAngle(WORLD_UP, MulDiv(0 - dx, RotateSpeedNum, RotateSpeedDen)), LAMBDA yawQ :
    Bind(premultiply(w.quaternion, yawQ), LAMBDA orientation :
    Bind(normalize(applyQuaternion(CAMERA_RIGHT, orientation)), LAMBDA rightAxis :
    Bind(setFromAxisAngle(rightAxis, MulDiv(0 - dy, RotateSpeedNum, RotateSpeedDen)), LAMBDA pitchQ :
        [position |-> Add3(w.pivot, applyQuaternion(applyQuaternion(offset, yawQ), pitchQ)),
         pivot |-> w.pivot,
         quaternion |-> premultiply(orientation, pitchQ)])))))

\* controls.pivot.set(x, y, z)
RotatePivots == {<<0, 0, 0>>, <<2 * PU, 0 - PU, PU>>, <<0 - 4 * PU, 3 * PU, 0>>}

\* camera.position.set(x, y, z)
RotatePositions == {<<0, 0, CameraDistance>>, <<3 * PU, 4 * PU, 12 * PU>>}

\* The pixel deltas of a drag (1 and 2 px), of the rotate key (2 * PI *
\* keyRotateSpeed / clientHeight / rotateSpeed) and of their inertia, in 1/XU
RotateDeltas ==
    {0, XU, 0 - 2 * XU, XU \div 2,
     MulDiv(MulDiv(TwoPi, HostKeyRotateSpeed, ElementSize), RotateSpeedDen, RotateSpeedNum)}

\* The number of rotations of a behaviour
RotateSteps == 2

InitRotate ==
    /\ \E position \in RotatePositions, pivot \in RotatePivots :
           st = [position |-> position, pivot |-> pivot, quaternion |-> <<0, 0, 0, SU>>]
    /\ call = [name |-> "constructor", event |-> [none |-> TRUE], changed |-> FALSE]
    /\ env = [buttons |-> {}, fingers |-> {}]
    /\ steps = 0

ApplyRotate(deltas) ==
    \E dx \in deltas, dy \in deltas :
        /\ Step("_applyRotate", [dx |-> dx, dy |-> dy], RotateAboutPivot(st, dx, dy), TRUE)
        /\ UNCHANGED env

NextRotate == Within(RotateSteps) /\ ApplyRotate(RotateDeltas)

SpecRotate == InitRotate /\ [][NextRotate]_vars

\* ------------------------------------------------------------ properties
\* The places in s.calls of the applications of the operation op
Applied(s, op) == {i \in DOMAIN s.calls : s.calls[i].op = op}

\* What a length loses when its vector is rescaled: one unit to the truncated
\* product and one to the square root rounded down
LengthRounding == 1 + 1

IsPerspective(s) == ~s.isOrthographic

\* C1: on a perspective camera with minDistance <= maxDistance, after every
\* Dolly step (of a wheel, pinch or key tick, or of update's inertia) the
\* camera's distance to the pivot lies in [minDistance, maxDistance].
\* _applyDolly clamps only when nextDistance > 0 (line 956): a step that ends
\* exactly on the pivot leaves the camera there, at distance 0.
C1_DollyKeepsDistanceInRange ==
    IsPerspective(st) =>
        \A i \in Applied(st, "Dolly") :
            /\ st.calls[i].distance >= st.minDistance - LengthRounding
            /\ st.calls[i].distance <= st.maxDistance + LengthRounding

\* C2: on an orthographic camera with minZoom <= maxZoom, camera.zoom lies in
\* [minZoom, maxZoom] after every wheel, pinch and key zoom tick and every
\* update().
C2_OrthoZoomInRange ==
    st.isOrthographic => st.minZoom <= st.zoom /\ st.zoom <= st.maxZoom

\* C2 witness: a Zoom step whose product camera.zoom * factor passed maxZoom
\* and left camera.zoom at maxZoom
C2_ZoomClampedAtMax ==
    /\ st.isOrthographic
    /\ st.zoom = st.maxZoom
    /\ \E i \in Applied(st, "Zoom") : st.calls[i].product > st.maxZoom

\* The calls that drive the zoom or replay its inertia
ZoomDriving == {"wheel", "keydown", "pointermove", "update"}

\* C3: in zoomMode 'fov' and 'auto' on a perspective camera with
\* minFov <= maxFov, no zoom tick and no inertial step of update() leaves
\* camera.fov below minFov or above maxFov: a call that finds camera.fov in
\* [minFov, maxFov] leaves it there.  The zoom-out of 'auto' widens up to the
\* base fov instead (lines 1039, 881-883), which may lie above maxFov.
C3_FovStaysInRange ==
    [][(/\ IsPerspective(st) /\ st.zoomMode \in {"fov", "auto"}
        /\ st.minFov <= st.fov /\ st.fov <= st.maxFov
        /\ call'.name \in ZoomDriving)
       => (st'.minFov <= st'.fov /\ st'.fov <= st'.maxFov)]_vars

\* The operation 'auto' owes a tick that finds the camera at this distance
\* and fov: FovZoom or Dolly
AutoChoice(s, isZoomIn, distance, fov) ==
    IF isZoomIn
    THEN IF distance <= s.minDistance + MIN_DISTANCE_BUFFER THEN "FovZoom" ELSE "Dolly"
    ELSE IF fov < s._baseFov - FOV_EPSILON THEN "FovZoom" ELSE "Dolly"

\* Whether the event of a wheel or key call zooms in
EventZoomsIn(c) == IF c.name = "wheel" THEN c.event.deltaY < 0 ELSE c.event.code = Keys.UP

\* C4: in zoomMode 'auto' on a perspective camera every zoom tick chooses its
\* operation from the state it finds: a zoom-in tick performs FovZoom if the
\* distance to the pivot is <= minDistance + 1 and Dolly otherwise, a zoom-out
\* tick performs FovZoom bounded by the base fov if camera.fov < baseFov - 0.01
\* and Dolly otherwise; a tick that performs Dolly leaves camera.fov unchanged.
\* A wheel or key tick finds the state before the call, a pinch tick the state
\* its two-finger drag has left.
C4_AutoRoutesByCurrentState ==
    [][\A i \in Applied(st', "Tick") :
        (IsPerspective(st) /\ st.zoomMode = "auto") =>
            LET tick == st'.calls[i]
                applied == st'.calls[i + 1]
                isPinch == call'.name = "pointermove"
                isZoomIn == IF isPinch THEN tick.isZoomIn ELSE EventZoomsIn(call')
                distance == IF isPinch THEN tick.distance ELSE Distance(st)
                fov == IF isPinch THEN tick.fov ELSE st.fov
                choice == AutoChoice(st, isZoomIn, distance, fov)
            IN  /\ Len(st'.calls) = i + 1
                /\ applied.op = choice
                /\ (choice = "FovZoom" /\ ~isZoomIn) => applied.maxFov = st._baseFov
                /\ choice = "Dolly" => st'.fov = st.fov]_vars

\* C4 witness: a zoom-in tick that found the camera inside the buffer, farther
\* than minDistance and no farther than minDistance + 1, and performed FovZoom
C4_FovZoomInsideBuffer ==
    /\ IsPerspective(st) /\ st.zoomMode = "auto"
    /\ \E i \in Applied(st, "Tick") :
        /\ st.calls[i].isZoomIn
        /\ st.calls[i].distance > st.minDistance
        /\ st.calls[i].distance <= st.minDistance + MIN_DISTANCE_BUFFER
        /\ st.calls[i + 1].op = "FovZoom"

\* C5: in zoomMode 'auto', from camera.fov <= baseFov (and minFov <= baseFov),
\* no sequence of zoom ticks and update() calls raises camera.fov above the
\* base fov.
C5_FovNeverAboveBase ==
    (IsPerspective(st) /\ st.zoomMode = "auto") => st.fov <= st._baseFov

\* C5 witness: a widening FovZoom whose quotient camera.fov / factor passed
\* the base fov and left camera.fov at the base fov
C5_WidenClampedAtBase ==
    /\ IsPerspective(st) /\ st.zoomMode = "auto"
    /\ st.fov = st._baseFov
    /\ \E i \in Applied(st, "FovZoom") :
        st.calls[i].maxFov = st._baseFov /\ st.calls[i].quotient > st._baseFov

\* Whether the call c is a zoom-out wheel or key tick or an update()
DrivesZoomOut(c) ==
    \/ c.name = "wheel" /\ c.event.deltaY > 0
    \/ c.name = "keydown" /\ c.event.code = Keys.BOTTOM
    \/ c.name = "update"

C7_BaseFovFrame ==
    /\ IsPerspective(st) => st._baseFov = st.fov
    /\ [][IF call'.name = "resetBaseFov"
          THEN st'._baseFov = st.fov /\ st'.fov = st.fov
          ELSE st'._baseFov = st._baseFov]_vars
    /\ []((IsPerspective(st) /\ st.zoomMode = "auto") => st.fov <= st._baseFov)

\* C7 witness: after resetBaseFov() captured a narrowed fov, a zoom-out tick
\* that left camera.fov at the new base fov
C7_ZoomOutAfterReset ==
    /\ IsPerspective(st) /\ st.zoomMode = "auto"
    /\ st._baseFov < CameraFov
    /\ st.fov = st._baseFov
    /\ \E i \in Applied(st, "Tick") : ~st.calls[i].isZoomIn

\* C8: a zoom tick is routed by camera kind and zoomMode.  An orthographic
\* camera gets Zoom whatever the zoomMode: camera.zoom is multiplied by the
\* factor (and clamped) and only the zoom velocity is set.  A perspective
\* camera in 'dolly' gets a Dolly step: camera.fov is unchanged and only the
\* dolly velocity is set.  A perspective camera in 'fov' gets FovZoom and no
\* Dolly: only the fov velocity is set.
C8_TickRoutedByKindAndMode ==
    [][\A i \in Applied(st', "Tick") :
        LET applied == st'.calls[i + 1]
        IN  /\ Len(st'.calls) = i + 1
            /\ call'.name \in {"wheel", "keydown"} =>
                   /\ st'._rotateVelocity = st._rotateVelocity
                   /\ st'._panVelocity = st._panVelocity
            /\ st.isOrthographic =>
                   /\ applied.op = "Zoom"
                   /\ st'.zoom = Clamp(MulDiv(st.zoom, applied.factor, SU), st.minZoom, st.maxZoom)
                   /\ st'._zoomVelocity = applied.factor
                   /\ st'._dollyVelocity = st._dollyVelocity
                   /\ st'._fovVelocity = st._fovVelocity
            /\ (IsPerspective(st) /\ st.zoomMode = "dolly") =>
                   /\ applied.op = "Dolly"
                   /\ st'.fov = st.fov
                   /\ st'._dollyVelocity = applied.step
                   /\ st'._zoomVelocity = st._zoomVelocity
                   /\ st'._fovVelocity = st._fovVelocity
            /\ (IsPerspective(st) /\ st.zoomMode = "fov") =>
                   /\ applied.op = "FovZoom"
                   /\ Applied(st', "Dolly") = {}
                   /\ st'._fovVelocity = applied.factor
                   /\ st'._dollyVelocity = st._dollyVelocity
                   /\ st'._zoomVelocity = st._zoomVelocity]_vars

\* C8 witness: a pinch tick on an orthographic camera whose zoomMode is not
\* 'dolly', which changed camera.zoom
C8_OrthoPinchZooms ==
    /\ st.isOrthographic /\ st.zoomMode # "dolly"
    /\ call.name = "pointermove"
    /\ \E i \in Applied(st, "Tick") : st.calls[i + 1].op = "Zoom"
    /\ st.zoom # CameraZoom

\* The drag mode a mouse pointerdown is to select under the bindings of s
ExpectedMode(s, event) ==
    IF /\ event.button = s.inputBindings.pan.button
       /\ \/ s.inputBindings.pan.modifier = "none"
          \/ s.inputBindings.pan.modifier \in event.mods
    THEN "pan"
    ELSE IF event.button = s.inputBindings.rotate.button THEN "rotate" ELSE "none"

IsMouse(c) == c.event.pointerType = "mouse"

\* C9: a mouse pointerdown selects pan if its button is the pan button and
\* the pan binding has no modifier or its modifier is held, otherwise rotate
\* if its button is the rotate button, and is otherwise ignored: no drag
\* starts, no velocity is reset, no `start` is emitted.  The drag that follows
\* rotates (the camera turns, its offset to the pivot turning with it) or pans
\* (the orientation is constant) by the mode selected, so under same-button
\* bindings the modifier alone decides.
C9_MouseDownSelectsMode ==
    [][/\ (call'.name = "pointerdown" /\ IsMouse(call')) =>
            LET mode == ExpectedMode(st, call'.event)
            IN  IF mode = "none"
                THEN st' = Begin(st)
                ELSE /\ st'._drag.isDragging /\ st'._drag.mode = mode
                     /\ st'.dispatched = <<"start">>
       /\ (call'.name = "pointermove" /\ IsMouse(call') /\ st._drag.isDragging) =>
            /\ st._drag.mode = "rotate" =>
                   /\ Applied(st', "Rotate") # {} /\ Applied(st', "Pan") = {}
                   /\ st'.position = st.position
            /\ st._drag.mode = "pan" =>
                   /\ Applied(st', "Pan") # {} /\ Applied(st', "Rotate") = {}
                   /\ st'.quaternion = st.quaternion]_vars

\* C9 witness: under same-button bindings, a drag of the shared button with
\* the pan modifier held has moved the camera and not turned it
C9_SameButtonModifierPans ==
    /\ st.inputBindings = SameButtonBindings
    /\ call.name = "pointermove" /\ IsMouse(call)
    /\ env.buttons = {SameButtonBindings.pan.button}
    /\ st._drag.mode = "pan"
    /\ st.position # <<0, 0, CameraDistance>>
    /\ st.quaternion = [yaw |-> 0, pitch |-> 0]

\* The five velocity channels of s are at rest
VelocitiesAtRest(s) ==
    /\ s._rotateVelocity = <<0, 0>> /\ s._panVelocity = <<0, 0>>
    /\ s._dollyVelocity = 0 /\ s._zoomVelocity = SU /\ s._fovVelocity = SU

Velocities(s) ==
    <<s._rotateVelocity, s._panVelocity, s._dollyVelocity, s._zoomVelocity, s._fovVelocity>>

Camera(s) == <<s.position, s.quaternion, s.zoom, s.fov>>

\* Whether the pointerdown c starts a drag in s: a mouse pointerdown that
\* matches a binding, or the first touch pointer
StartsDrag(s, c) ==
    /\ c.name = "pointerdown"
    /\ IF IsMouse(c) THEN ExpectedMode(s, c.event) # "none" ELSE s._pointers = <<>>

\* C10: starting a drag resets the five velocity channels to rest, whatever
\* inertia was left; a release leaves them as they are; and update() with all
\* channels at rest returns false and leaves the camera unchanged.  So after a
\* drag released without a move the next update() returns false.
C10_DragStartRestsVelocities ==
    [][/\ StartsDrag(st, call') => VelocitiesAtRest(st')
       /\ call'.name = "pointerup" => Velocities(st') = Velocities(st)
       /\ (call'.name = "update" /\ VelocitiesAtRest(st)) =>
              ~call'.changed /\ Camera(st') = Camera(st)]_vars

\* C10 witness: with damping on and no drag active, an update() that returned
\* false on a camera that a wheel tick had moved: the inertia of the tick was
\* reset by the drag started and released since
C10_UpdateAtRestAfterDrag ==
    /\ call.name = "update" /\ ~call.changed
    /\ st.enableDamping /\ ~st._drag.isDragging
    /\ st.position # <<0, 0, CameraDistance>> \/ st.zoom # CameraZoom
    /\ VelocitiesAtRest(st)

\* The keyboard action a keydown has applied: a zoom tick, Rotate or Pan
KeyActionApplied(s) ==
    Applied(s, "Tick") # {} \/ Applied(s, "Rotate") # {} \/ Applied(s, "Pan") # {}

\* C11: a recognized rotate, pan or zoom key resets the five velocity
\* channels to rest before the action seeds its own, so after the keydown
\* every channel the action did not seed is at rest: after a rotate key the
\* pan, dolly, zoom and fov channels, after a pan key the rotate, dolly, zoom
\* and fov channels, after a zoom key the rotate and pan channels and all but
\* one of the dolly, zoom and fov channels.  _onKeyDown and _applyKeyZoom
\* write the action's channel only (lines 1333, 1344, 1063-1095): the inertia
\* of a wheel tick survives a pan key.
C11_KeyActionRestsVelocities ==
    [][(call'.name = "keydown" /\ KeyActionApplied(st')) =>
          /\ Applied(st', "Rotate") = {} => st'._rotateVelocity = <<0, 0>>
          /\ Applied(st', "Pan") = {} => st'._panVelocity = <<0, 0>>
          /\ Applied(st', "Dolly") = {} => st'._dollyVelocity = 0
          /\ Applied(st', "Zoom") = {} => st'._zoomVelocity = SU
          /\ Applied(st', "FovZoom") = {} => st'._fovVelocity = SU]_vars

\* The `start` and `end` notifications among those of seq, in order
RECURSIVE StartsAndEnds(_)
StartsAndEnds(seq) ==
    IF seq = <<>> THEN <<>>
    ELSE IF seq[1] \in {"start", "end"} THEN <<seq[1]>> \o StartsAndEnds(Tail(seq))
    ELSE StartsAndEnds(Tail(seq))

IsPointerCall(c) == c.name \in {"pointerdown", "pointermove", "pointerup"}

\* C12: over any interleaving of mouse and touch pointer events, with
\* `enabled` switched in between, `start` and `end` alternate, `start` first:
\* a pointer event emits `start` only if the last of the two emitted before
\* it was `end` (or none was), and `end` only if it was `start`.
\* _onPointerUp emits `end` for a bound button whether or not a drag is
\* active (lines 1245-1254), and is not gated by `enabled`; a mouse
\* pointerdown emits `start` while a touch drag is active (line 1133).
C12_StartEndAlternate ==
    [][IsPointerCall(call') =>
          LET seq == <<st.notified>> \o StartsAndEnds(st'.dispatched)
          IN  \A i \in 1..(Len(seq) - 1) :
                  IF seq[i + 1] = "start" THEN seq[i] # "start" ELSE seq[i] = "start"]_vars

IsTouch(c) == IsPointerCall(c) /\ c.event.pointerType = "touch"

\* C13: in a touch-only gesture with the controller enabled, `start` is
\* emitted exactly when the pointer set goes from empty to one pointer and
\* `end` exactly when it becomes empty again: a second or third finger
\* arriving, a finger lifted while another stays, a move and update() emit
\* neither, so the last of the two emitted is `start` exactly while a finger
\* is down.
C13_TouchStartEndOnce ==
    /\ [][LET emitted == StartsAndEnds(st'.dispatched)
          IN  IF call'.name = "pointerdown" /\ st._pointers = <<>>
              THEN emitted = <<"start">> /\ Len(st'._pointers) = 1
              ELSE IF call'.name = "pointerup" /\ st._pointers # <<>> /\ st'._pointers = <<>>
              THEN emitted = <<"end">>
              ELSE emitted = <<>>]_vars
    /\ [](st.notified = "start" <=> st._pointers # <<>>)

\* C13 witness: one of two fingers was lifted and nothing was emitted, the
\* `start` of the first finger being the last notification
C13_LiftedOneOfTwo ==
    /\ call.name = "pointerup" /\ IsTouch(call)
    /\ Len(st._pointers) = 1
    /\ st.dispatched = <<>>
    /\ st.notified = "start"

\* The midpoint of the first two pointers, in 1/XU pixels
Midpoint(pointers) ==
    <<((pointers[1].clientX + pointers[2].clientX) * XU) \div 2,
      ((pointers[1].clientY + pointers[2].clientY) * XU) \div 2>>

\* The position of a stored pointer, in 1/XU pixels
PointerAt(pointer) == <<pointer.clientX * XU, pointer.clientY * XU>>

Reference(s) == <<s._drag.x, s._drag.y>>

\* The movements <<dx, dy>> the drag operation of mode has been applied with
DraggedBy(s, mode) ==
    {<<s.calls[i].dx, s.calls[i].dy>> :
        i \in Applied(s, IF mode = "rotate" THEN "Rotate" ELSE "Pan")}

\* C14: in a touch-only gesture the drag mode is touchBindings.one whenever
\* one pointer is down and touchBindings.two whenever two are.  A move keeps
\* the moved pointer's position.  When a second pointer arrives the reference
\* becomes the midpoint of both, when one of two is lifted it becomes the
\* last position of the one that stays, and with one pointer down the
\* reference is that pointer's position.  So a move is applied with the
\* movement made since: of the pointer when one is down, of the midpoint when
\* two are and the reference is their midpoint.
C14_TouchModeAndReference ==
    /\ [](/\ Len(st._pointers) = 1 =>
                /\ st._drag.mode = st.touchBindings.one
                /\ Reference(st) = PointerAt(st._pointers[1])
          /\ Len(st._pointers) = 2 => st._drag.mode = st.touchBindings.two)
    /\ [][/\ (call'.name = "pointerdown" /\ Len(st._pointers) = 1) =>
                Reference(st') = Midpoint(st'._pointers)
          /\ (call'.name = "pointerup" /\ Len(st._pointers) = 2) =>
                \E i \in 1..2 :
                    /\ st._pointers[i].pointerId # call'.event.pointerId
                    /\ st'._pointers = <<st._pointers[i]>>
                    /\ Reference(st') = PointerAt(st._pointers[i])
          /\ call'.name = "pointermove" =>
                /\ \E i \in 1..Len(st._pointers) :
                       /\ st._pointers[i].pointerId = call'.event.pointerId
                       /\ st'._pointers = [st._pointers EXCEPT ![i] = Touch(call'.event)]
                /\ Len(st._pointers) = 1 =>
                       DraggedBy(st', st._drag.mode) =
                           {<<(call'.event.clientX - st._pointers[1].clientX) * XU,
                              (call'.event.clientY - st._pointers[1].clientY) * XU>>}
                /\ (Len(st._pointers) = 2 /\ Reference(st) = Midpoint(st._pointers)) =>
                       DraggedBy(st', st._drag.mode) =
                           {<<Midpoint(st'._pointers)[1] - Midpoint(st._pointers)[1],
                              Midpoint(st'._pointers)[2] - Midpoint(st._pointers)[2]>>}]_vars

\* C14 witness: the first of two fingers was lifted after the second had
\* moved: the one-finger mode is back and the reference is where the second
\* finger moved to, neither where it touched nor the midpoint the two had
C14_DowngradedToOne ==
    /\ call.name = "pointerup" /\ IsTouch(call) /\ call.event.pointerId = 1
    /\ env.fingers = {2}
    /\ Len(st._pointers) = 1 /\ st._pointers[1].pointerId = 2
    /\ st._drag.mode = st.touchBindings.one
    /\ Reference(st) = <<8 * XU, 4 * XU>>
    /\ st.position # <<0, 0, CameraDistance>> \/ st.quaternion # [yaw |-> 0, pitch |-> 0]

KeyboardActionNames == {"rotate", "pan", "zoom"}

\* The fault the assignment of the keyboardBindings b is to raise
ExpectedFault(b) ==
    LET active == {a \in KeyboardActionNames : b[a] # "disabled"}
        bare == {a \in active : b[a] = "bare"}
    IN  IF active = {} THEN "at least one action must be active"
        ELSE IF \E a1, a2 \in active \ bare : a1 # a2 /\ b[a1] = b[a2] THEN "duplicate modifier"
        ELSE IF Cardinality(bare) > 1 THEN "at most one action can be bare"
        ELSE "none"

\* C15: assigning keyboardBindings raises a fault exactly for the invalid
\* values, over every combination of a modifier, bare and disabled for
\* rotate, pan and zoom: all three disabled raise 'at least one action must
\* be active', two active actions with one modifier 'duplicate modifier',
\* more than one bare active action 'at most one action can be bare'; every
\* other value is accepted and becomes the bindings, and a value that raised
\* a fault leaves the bindings as they were.
C15_BindingsFaultExactlyWhenInvalid ==
    [][call'.name = "keyboardBindings" =>
          /\ call'.event.thrown = ExpectedFault(call'.event.value)
          /\ st'._keyboardBindings =
                 IF ExpectedFault(call'.event.value) = "none"
                 THEN call'.event.value ELSE st._keyboardBindings]_vars

\* C15 witness: bindings with two bare actions and a modifier were assigned:
\* the assignment threw and the constructor's bindings are still there
C15_TwoBareRejected ==
    /\ call.name = "keyboardBindings"
    /\ call.event.value = [rotate |-> "bare", pan |-> "bare", zoom |-> "ctrl"]
    /\ call.event.thrown = "at most one action can be bare"
    /\ st._keyboardBindings = DefaultKeyboardBindings

\* Whether a keyboard binding matches the modifiers held: one with a
\* modifier whenever that modifier is held, a bare one only when none is
\* held, a disabled one never
BindingMatches(action, mods) ==
    CASE action = "disabled" -> FALSE
      [] action = "bare" -> mods = {}
      [] OTHER -> action \in mods

ArrowCodes == {"ArrowLeft", "ArrowUp", "ArrowRight", "ArrowDown"}

\* Whether a keyboard action applies to the key event under the bindings of
\* s: zoom first, for UP and BOTTOM only, otherwise rotate or pan
KeyActionApplies(s, event) ==
    /\ event.code \in ArrowCodes
    /\ IF BindingMatches(s._keyboardBindings.zoom, event.mods)
       THEN event.code \in {"ArrowUp", "ArrowDown"}
       ELSE \/ BindingMatches(s._keyboardBindings.rotate, event.mods)
            \/ BindingMatches(s._keyboardBindings.pan, event.mods)

\* The controller receives the keydown events of the window and handles them
KeysHandled(s) == s._keyboardElement = "window" /\ s.enabled /\ s.enableKeyboard

\* C16: a keydown has an effect only if the controller listens on the
\* element, enabled and enableKeyboard are true, the code is one of the four
\* configured keys and a keyboard action applies: then `start` and `end` are
\* emitted once each, `end` right after `start`, and preventDefault is called
\* once.  In every other case the camera, the velocities and the rest of the
\* controller are unchanged, nothing is emitted and preventDefault is not
\* called.
C16_KeyDownActsOnlyWhenHandled ==
    [][call'.name = "keydown" =>
          IF KeysHandled(st) /\ KeyActionApplies(st, call'.event)
          THEN /\ StartsAndEnds(st'.dispatched) = <<"start", "end">>
               /\ SubSeq(st'.dispatched, Len(st'.dispatched) - 1, Len(st'.dispatched))
                      = <<"start", "end">>
               /\ st'.prevented = 1
          ELSE st' = Begin(st)]_vars

\* C16 witness: the pan key, the last call of a behaviour, moved the camera:
\* one change, one start, one end, one preventDefault
C16_KeyActedOnce ==
    /\ call.name = "keydown" /\ call.event = [code |-> "ArrowLeft", mods |-> {}]
    /\ steps = KeySteps
    /\ st.dispatched = <<"change", "start", "end">>
    /\ st.prevented = 1
    /\ st.position # <<0, 0, CameraDistance>>

\* C17: for a configured key the action is selected from the modifiers held,
\* zoom first.  If the zoom binding matches, UP is a zoom-in tick, BOTTOM a
\* zoom-out tick and LEFT and RIGHT do nothing, whatever the rotate and pan
\* bindings; otherwise the action applied is Rotate or Pan, one of them, and
\* its binding matches; if none matches nothing is done.  A binding with a
\* modifier matches whenever the modifier is held, a bare one only when no
\* modifier is held, a disabled one never.
C17_ZoomCheckedFirst ==
    [][(call'.name = "keydown" /\ KeysHandled(st) /\ call'.event.code \in ArrowCodes) =>
          LET event == call'.event
              bindings == st._keyboardBindings
              ticks == {st'.calls[i] : i \in Applied(st', "Tick")}
              rotated == Applied(st', "Rotate") # {}
              panned == Applied(st', "Pan") # {}
          IN  IF BindingMatches(bindings.zoom, event.mods)
              THEN /\ ~rotated /\ ~panned
                   /\ event.code = "ArrowUp" =>
                          Cardinality(ticks) = 1 /\ \A t \in ticks : t.isZoomIn /\ t.scale < SU
                   /\ event.code = "ArrowDown" =>
                          Cardinality(ticks) = 1 /\ \A t \in ticks : ~t.isZoomIn /\ t.scale > SU
                   /\ event.code \in {"ArrowLeft", "ArrowRight"} => st' = Begin(st)
              ELSE /\ ticks = {}
                   /\ rotated => BindingMatches(bindings.rotate, event.mods) /\ ~panned
                   /\ panned => BindingMatches(bindings.pan, event.mods)
                   /\ (rotated \/ panned) <=>
                          \/ BindingMatches(bindings.rotate, event.mods)
                          \/ BindingMatches(bindings.pan, event.mods)
                   /\ (~rotated /\ ~panned) => st' = Begin(st)]_vars

\* C17 witness: with zoom on ctrl and rotate on shift, LEFT with ctrl and
\* shift held did nothing on a controller that handles keys
C17_ZoomModifierLeftIgnored ==
    /\ call.name = "keydown"
    /\ call.event = [code |-> "ArrowLeft", mods |-> {"shift", "ctrl"}]
    /\ st._keyboardBindings = ZoomKeyboardBindings
    /\ KeysHandled(st)
    /\ st.dispatched = <<>> /\ st.prevented = 0

\* C18: while `enabled` is false no pointerdown, pointermove, wheel or
\* keydown event and no update() changes the camera's position, orientation,
\* fov or zoom, nor any velocity channel.
C18_DisabledChangesNothing ==
    [][(~st.enabled /\ call'.name \in {"pointerdown", "pointermove", "wheel", "keydown", "update"}) =>
          Camera(st') = Camera(st) /\ Velocities(st') = Velocities(st)]_vars

\* C18 witness: update() on a disabled controller that holds the inertia of
\* a wheel tick made while it was enabled
C18_UpdateWhileDisabled ==
    /\ call.name = "update"
    /\ ~st.enabled /\ st.enableDamping
    /\ st._dollyVelocity # 0
    /\ st.position # <<0, 0, CameraDistance>>

\* C19: update() returns false and changes neither the camera nor a velocity
\* channel, nor anything else of the controller, whenever `enabled` is false,
\* enableDamping is false or a drag is active: the velocities stored are
\* neither decayed nor cleared.
C19_UpdateHeldBack ==
    [][(call'.name = "update" /\ (~st.enabled \/ ~st.enableDamping \/ st._drag.isDragging)) =>
          ~call'.changed /\ st' = Begin(st)]_vars

\* C19 witness: update() during a drag whose last move left a velocity
C19_UpdateDuringDrag ==
    /\ call.name = "update" /\ ~call.changed
    /\ st.enabled /\ st.enableDamping /\ st._drag.isDragging
    /\ ~VelocitiesAtRest(st)

\* C20: update() returns true if and only if the call changed the camera's
\* position, orientation, fov or zoom.  update() sets its result for every
\* channel above its stop epsilon (lines 856-886), whether or not the
\* operation applied moved the camera: a step held by a clamp returns true.
C20_UpdateTrueIffCameraChanged ==
    [][call'.name = "update" => (call'.changed <=> Camera(st') # Camera(st))]_vars

\* C21: inertia always dies out: once the input events are over and the
\* animation loop runs, whatever the dampingFactor and the deltas of the
\* frames, the calls of update() come to one that returns false, and every
\* update() after it returns false
C21_InertiaDiesOut == InputOver ~> [](call.name = "update" /\ ~call.changed)

\* update() has returned false after the inertia of a pan key has carried the
\* camera on with dampingFactor below MIN_DAMPING
C21_CameAtRest ==
    /\ call.name = "update" /\ ~call.changed
    /\ st.dampingFactor = 0 /\ st.enableDamping /\ ~st._drag.isDragging
    /\ st.position[1] < 0 - 2 * PU

\* The displacement kept with the update() call c
Moved(c) == c.event.moved

MovedKinds == {"position", "angle", "zoom", "fov"}

\* update() after update() with the same delta, the first of them having
\* returned true
SuccessiveUpdates ==
    /\ call.name = "update" /\ call.changed
    /\ call'.name = "update"
    /\ call'.event.deltaFrames = call.event.deltaFrames

\* C22: damping decays monotonically: of two successive update() calls with
\* the same delta, the second moves the camera by strictly less than the
\* first in position, angle, zoom and fov alike, and it returns true only if
\* it has moved the camera at all
C22_DisplacementDecays ==
    [][SuccessiveUpdates =>
          /\ \A kind \in MovedKinds :
                 IF Moved(call)[kind] = 0 THEN Moved(call')[kind] = 0
                 ELSE Moved(call')[kind] < Moved(call)[kind]
          /\ call'.changed => \E kind \in MovedKinds : Moved(call')[kind] > 0]_vars

\* The seven components of the five velocity channels, as distances from rest
VelocityValues(s) ==
    <<s._rotateVelocity[1], s._rotateVelocity[2], s._panVelocity[1], s._panVelocity[2],
      s._dollyVelocity, s._zoomVelocity - SU, s._fovVelocity - SU>>

\* Whether the channel of each component is above its stop threshold
\* (lines 856, 862, 868, 874, 880)
AboveThreshold(s) ==
    <<Moving2(s._rotateVelocity, XU), Moving2(s._rotateVelocity, XU),
      Moving2(s._panVelocity, XU), Moving2(s._panVelocity, XU),
      Abs(s._dollyVelocity) * STOP_EPSILON_INV > PU,
      Abs(s._zoomVelocity - SU) * ZOOM_STOP_EPSILON_INV > SU,
      Abs(s._fovVelocity - SU) * ZOOM_STOP_EPSILON_INV > SU>>

\* The deltas of 120 and of 60 frames a second, in 1/1000 frames
DecayFrames == {500, 1000}

\* Two velocities a rounding apart: two units, and 1/2048 of the velocity
DecayRounding(v, w) == Abs(v - w) <= 2 + Abs(v) \div 2^11

\* C23: velocity decay is frame-rate independent: in every state, for frame
\* deltas a and b, a channel that is above its stop threshold before
\* update(a) and after it has, after update(a) and update(b), the value it
\* has after the single update(a + b), up to rounding
C23_DecayFrameRateIndependent ==
    \A a \in DecayFrames, b \in DecayFrames :
        \A first \in {update(st, a).st} :
            \A second \in {update(first, b).st}, whole \in {update(st, a + b).st} :
                \A i \in 1..7 :
                    AboveThreshold(st)[i] /\ AboveThreshold(first)[i]
                        => DecayRounding(VelocityValues(whole)[i], VelocityValues(second)[i])

\* The velocity of a pan key, two pixels a frame at dampingFactor 1/2, is one
\* pixel a frame after one update of a frame and after two of half a frame
C23_HalvedEitherWay ==
    /\ st._panVelocity = <<2 * XU, 0>> /\ st.dampingFactor = SU \div 2
    /\ update(st, 1000).st._panVelocity = <<XU, 0>>
    /\ update(update(st, 500).st, 500).st._panVelocity[1] \in {XU - 1, XU}
    /\ update(st, 500).st._panVelocity[1] > XU + XU \div 4

\* The controller after count calls of update(), each with the same delta
RECURSIVE RunFrames(_, _, _)
RunFrames(s, milliFrames, count) ==
    IF count = 0 THEN s
    ELSE Bind(update(s, milliFrames).st, LAMBDA next : RunFrames(next, milliFrames, count - 1))

\* How far the camera has come from a to b: the length of the way in
\* position, the angles turned, and the change of zoom and fov
Travelled(a, b) ==
    [position |-> Length3(Sub3(b.position, a.position)),
     angle |-> Abs(b.quaternion.yaw - a.quaternion.yaw) + Abs(b.quaternion.pitch - a.quaternion.pitch),
     zoom |-> Abs(b.zoom - a.zoom),
     fov |-> Abs(b.fov - a.fov)]

\* Two displacements within a quarter of the larger one (and the rounding of
\* a few units) of each other
Approximately(x, y) == 4 * Abs(x - y) <= Max(x, y) + 4 * LengthRounding

\* C24: motion is frame-rate independent: from every state, the camera comes
\* approximately as far in the 1/30 s of one update() at 30 frames a second
\* as in the same 1/30 s of four update() calls at 120 frames a second
C24_MotionFrameRateIndependent ==
    \A slow \in {RunFrames(st, 2000, 1)}, fast \in {RunFrames(st, 500, 4)} :
        \A kind \in MovedKinds :
            Approximately(Travelled(st, slow)[kind], Travelled(st, fast)[kind])

\* The rotations and pans a call has applied, in order
DragOps(s) == SelectSeq(s.calls, LAMBDA c : c.op \in {"Rotate", "Pan"})

\* The velocity an applied rotation or pan stands for in its own channel
VelocityOf(op, kind) == IF op.op = kind THEN <<op.dx, op.dy>> ELSE <<0, 0>>

\* C25: after a move of a mouse or touch drag, the stored rotate and pan
\* velocities are the pixel delta of that move in the channel of its mode and
\* nothing in the other one - earlier moves contribute nothing, and a move
\* with zero delta leaves no rotate or pan inertia -, and update() re-applies
\* exactly the stored velocities
C25_VelocityIsLastDelta ==
    [][/\ call'.name = "pointermove" /\ Len(DragOps(st')) = 1
           => /\ st'._rotateVelocity = VelocityOf(DragOps(st')[1], "Rotate")
              /\ st'._panVelocity = VelocityOf(DragOps(st')[1], "Pan")
       /\ call'.name = "update"
           => \A i \in DOMAIN DragOps(st') :
                  <<DragOps(st')[i].dx, DragOps(st')[i].dy>> =
                      IF DragOps(st')[i].op = "Rotate" THEN st._rotateVelocity ELSE st._panVelocity]_vars

\* The rounding of the rotated offset, in 1/PU
RotateRounding == 1 + 1

\* C28: rotation preserves the distance to the pivot: whatever the pivot, the
\* camera's position and the rotate delta, the camera is as far from the
\* pivot after _applyRotate as before it, up to rounding
C28_RotateKeepsDistance ==
    [][call'.name = "_applyRotate" =>
          Abs(Length3(Sub3(st'.position, st'.pivot)) - Length3(Sub3(st.position, st.pivot)))
              <= RotateRounding]_vars

\* The camera has been turned about a pivot off the origin by a yaw and a
\* pitch, to a position more than a unit from where it was constructed
C28_TurnedAboutPivot ==
    /\ call.name = "_applyRotate" /\ call.event.dx # 0 /\ call.event.dy # 0
    /\ st.pivot = <<2 * PU, 0 - PU, PU>>
    /\ steps = RotateSteps
    /\ Length3(Sub3(st.position, <<0, 0, CameraDistance>>)) > PU

\* C26: pan never changes the camera's orientation, whichever source drives
\* it: a call that pans and does not rotate (a move of a mouse drag or of a
\* one- or two-finger touch drag, with or without a pinch, a press of the pan
\* key, update() with pan inertia only) leaves camera.quaternion as it was,
\* for both camera kinds and every zoomMode
C26_PanKeepsOrientation ==
    [][(Applied(st', "Pan") # {} /\ Applied(st', "Rotate") = {}) => st'.quaternion = st.quaternion]_vars

\* update() has applied pan inertia, and no rotation, to a camera in zoomMode
\* 'auto' that had been turned before
C26_PanInertiaAfterTurn ==
    /\ call.name = "update" /\ call.changed
    /\ Applied(st, "Pan") # {} /\ Applied(st, "Rotate") = {}
    /\ st.zoomMode = "auto"
    /\ st.quaternion # [yaw |-> 0, pitch |-> 0]

\* C27: the controller never modifies the pivot: no contextmenu, pointer,
\* touch, wheel or key event, no update() and no connect, disconnect, dispose
\* or listenToKeyEvents call changes it; only the host's assignment does
C27_PivotNeverModified == [][call'.name # "pivot" => st'.pivot = st.pivot]_vars

\* update() has moved the camera by inertia about a pivot that the host had
\* put off the origin
C27_InertiaAboutHostPivot ==
    /\ call.name = "update" /\ call.changed
    /\ st.pivot = <<PU, 0, 0 - 2 * PU>>

\* The events the listeners of connect() are for
IsDomEvent(c) == c.name \in {"contextmenu", "wheel", "pointerdown", "pointermove", "pointerup"}

\* C29: after any sequence of construction, connect(element?) and
\* disconnect() calls the contextmenu, pointer and wheel listeners are on at
\* most one element: connect(e) leaves them on e alone, disconnect() leaves
\* them nowhere, so that an event on either element then has no effect, and
\* connect() without argument after disconnect() puts them back on the
\* element they were on
C29_HandlersOnOneElement ==
    [][/\ Cardinality(st'.listeners) <= 1
       /\ (call'.name = "connect" /\ call'.event.domElement # "undefined")
              => st'.listeners = {call'.event.domElement}
       /\ call'.name = "disconnect" => st'.listeners = {}
       /\ (IsDomEvent(call') /\ call.name = "disconnect") => st' = Begin(st)
       /\ (call.name = "disconnect" /\ call'.name = "connect" /\ call'.event.domElement = "undefined")
              => /\ call.event.attached \subseteq st'.listeners
                 /\ st'.listeners = {st.domElement} \ {"null"}]_vars

\* connect() without argument has put the listeners back on the second
\* element, after connect(other) and disconnect()
C29_ReattachedToOther ==
    /\ call.name = "connect" /\ call.event.domElement = "undefined"
    /\ st.listeners = {"other"} /\ st.domElement = "other"
    /\ steps = 3

\* No element carries a listener of the controller, and it knows of none
Detached(s) ==
    /\ s.listeners = {} /\ s.keyListeners = {}
    /\ s.domElement = "null" /\ s._keyboardElement = "null"

\* C30: dispose() is terminal: it leaves no listener on any element and the
\* pointer set empty; from then on a contextmenu, pointer, wheel or key event
\* on any element changes neither the camera nor the controller and emits
\* nothing, and connect() without an element attaches nothing
C30_DisposeIsTerminal ==
    [][/\ call'.name = "dispose" => (Detached(st') /\ st'._pointers = <<>>)
       /\ (Detached(st) /\ (IsDomEvent(call') \/ call'.name = "keydown"))
              => (st' = Begin(st) /\ st'._pointers = <<>>)
       /\ (Detached(st) /\ call'.name = "connect" /\ call'.event.domElement = "undefined")
              => Detached(st')]_vars

\* A move of the mouse on the element the controller was disposed on in the
\* middle of a drag
C30_MoveAfterDispose ==
    /\ call.name = "pointermove" /\ call.event.target = "element"
    /\ Detached(st)
    /\ st._drag.isDragging

\* The operations a call applied, in order
Operations(s) == [i \in DOMAIN s.calls |-> s.calls[i].op]

\* C31: a keyboard zoom is one scroll-zoom tick at the viewport centre: with
\* keyZoomSpeed = zoomSpeed, in every state a press of the zoom key of
\* direction d applies the operations (Dolly, FovZoom or Zoom) that a wheel
\* tick of deltaY = -100 * d at the centre of the element applies, and leaves
\* the camera and the five velocities as that tick leaves them
C31_KeyZoomIsCentreTick ==
    st.keyZoomSpeed = st.zoomSpeed =>
        \A direction \in {1, 0 - 1} :
            \A key \in {_onKeyDown(Begin(st), ZoomKey(direction))} :
                \A tick \in {_onWheel(Begin(st), CentreTick(direction))} :
                    /\ Operations(key) = Operations(tick)
                    /\ Camera(key) = Camera(tick)
                    /\ Velocities(key) = Velocities(tick)
                    /\ key._wheelPointer = tick._wheelPointer

\* A press of the zoom-in key has narrowed the fov of a damped camera in
\* zoomMode 'auto' that earlier ticks had brought to minDistance
C31_KeyNarrowedFov ==
    /\ call.name = "keydown" /\ call.event.code = "ArrowUp"
    /\ st.zoomMode = "auto" /\ st.enableDamping
    /\ st.keyZoomSpeed = st.zoomSpeed
    /\ Applied(st, "FovZoom") # {}
    /\ st.fov < CameraFov

\* The primitive operations that write the camera
Mutations(s) == {i \in DOMAIN s.calls : s.calls[i].op \in {"Rotate", "Pan", "Dolly", "Zoom", "FovZoom"}}

\* The `change` notifications of a call
Changes(s) == {i \in DOMAIN s.dispatched : s.dispatched[i] = "change"}

\* C32: every mutation of the camera by the controller is followed by a
\* `change` before the handler or update() returns: a call emits a `change`
\* for each Rotate, Pan, Dolly, Zoom and FovZoom it applies, and a call that
\* leaves the camera other than it found it has emitted one
C32_ChangeFollowsMutation ==
    [][/\ Cardinality(Changes(st')) >= Cardinality(Mutations(st'))
       /\ Camera(st') # Camera(st) => Changes(st') # {}]_vars

\* update() has changed the fov by inertia and emitted `change`
C32_FovInertiaAnnounced ==
    /\ call.name = "update" /\ call.changed
    /\ Applied(st, "FovZoom") # {}
    /\ Changes(st) # {}
    /\ st.fov # CameraFov

\* What the point under the anchor loses to the truncated quotients of the
\* three intersections, in 1/PU
AnchorRounding == 1 + 1 + 1

\* Two points no farther apart than the rounding in any coordinate
Near3(a, b) == \A i \in 1..3 : Abs(a[i] - b[i]) <= AnchorRounding

\* The call applied one operation only, a Dolly step, about _wheelPointer
DollyAlone(s, c) ==
    /\ c.name \in {"wheel", "keydown", "update"}
    /\ Cardinality(Mutations(s)) = 1 /\ Applied(s, "Dolly") # {}

\* The step every Dolly of the call was applied with
DollyStep(s) == s.calls[CHOOSE i \in Applied(s, "Dolly") : TRUE].step

\* The distance clamp of _applyDolly leaves the position as it is
Unclamped(s, position) == ClampToDistance(s, position) = position

\* C33: cursor-anchored dolly: after a Dolly step whose two ray/plane
\* intersections succeed and whose result is not clamped, the ray through
\* the anchor meets the pivot plane where it met it before the step (up to
\* rounding): the camera has moved along the anchor ray
C33_DollyKeepsAnchor ==
    [][DollyAlone(st', call') =>
          \A ray \in {RayFromCamera(st, st'._wheelPointer)} :
              \A nextPos \in {Add3(st.position, Scale3(Forward, DollyStep(st'), 1))} :
                  \A before \in {intersectRayWithPlane(st.position, ray, Pivot, Forward)} :
                      \A after \in {intersectRayWithPlane(nextPos, ray, Pivot, Forward)} :
                          \A under \in {intersectRayWithPlane(st'.position, ray, Pivot, Forward)} :
                              (/\ before.hit /\ after.hit
                               /\ Unclamped(st, Add3(nextPos, Sub3(before.out, after.out))))
                                  => (under.hit /\ Near3(under.out, before.out))]_vars

\* A wheel tick off the centre of the element has dollied the camera in and
\* sideways, to a distance inside (minDistance, maxDistance)
C33_DolliedTowardsCursor ==
    /\ call.name = "wheel" /\ call.event.clientX = 8
    /\ DollyAlone(st, call) /\ Distance(st) > st.minDistance + PU
    /\ DollyStep(st) > 0
    /\ st.position[1] # 0

\* C34: degenerate-geometry fallback of Dolly: when either intersection of
\* the anchor ray with the pivot plane fails, the Dolly step still completes
\* and moves the camera, before the distance clamp, by exactly `step` world
\* units along the anchor ray
C34_FallbackMovesStepAlongRay ==
    [][DollyAlone(st', call') =>
          \A ray \in {RayFromCamera(st, st'._wheelPointer)} :
              \A nextPos \in {Add3(st.position, Scale3(Forward, DollyStep(st'), 1))} :
                  \A before \in {intersectRayWithPlane(st.position, ray, Pivot, Forward)} :
                      \A after \in {intersectRayWithPlane(nextPos, ray, Pivot, Forward)} :
                          (~before.hit \/ ~after.hit)
                              => Near3(st'.position,
                                       ClampToDistance(st, Add3(st.position,
                                                                Scale3(ray.d, DollyStep(st'), ray.len))))]_vars

\* C39: zooming in by dolly never carries the camera through the pivot
\* plane: after every zoom-in tick and every inertial continuation of it by
\* update() the pivot is not behind the perspective camera
C39_PivotStaysInFront == ~st.isOrthographic => Dot3(Sub3(Pivot, st.position), Forward) >= 0

\* ------------------------------------------------- the touch pointer set
\* The pointer ids held by this._pointers
PointerIds(s) == {s._pointers[i].pointerId : i \in 1..Len(s._pointers)}

\* C35: the touch pointer set always holds zero, one or two pointers and holds
\* each pointer id at most once, whatever touch pointerdown, pointermove and
\* pointerup/pointercancel events arrive, a third finger included
C35_AtMostTwoPointers ==
    /\ Len(st._pointers) \in {0, 1, 2}
    /\ Cardinality(PointerIds(st)) = Len(st._pointers)

\* ------------------------------------------------- the drag record
\* C36: in every reachable state the drag is active exactly when its mode is
\* rotate or pan, and an inactive drag has no mode, whatever mouse and touch
\* pointer events arrive and however they interleave
C36_DragRecordConsistent ==
    /\ st._drag.isDragging <=> st._drag.mode \in {"rotate", "pan"}
    /\ ~st._drag.isDragging => st._drag.mode = "none"

\* ------------------------------------------------- damping: SpecDamping
\* The cameras of SpecInertia with dampingFactor at -1/4, 0, 1/2 and 9/8;
\* the same input events; update() with a negative delta, with
\* zero, with half a frame and with one frame
DampingValues == {0 - SU \div 4, 0, SU \div 2, SU + SU \div 8}

DampingFrames == {0 - 1000, 0, 500, 1000}

\* The number of calls of a behaviour of SpecDamping
DampingSteps == 4

InitDamping ==
    /\ \E host \in InertiaHosts, dampingFactor \in DampingValues :
           st = WithDampingFactor(Constructed(host), dampingFactor)
    /\ call = [name |-> "constructor", event |-> [none |-> TRUE], changed |-> FALSE]
    /\ env = [buttons |-> {}, fingers |-> {}]
    /\ steps = 0

NextDamping ==
    \/ Within(DampingSteps) /\ Wheel(InertiaWheelEvents)
    \/ Within(DampingSteps) /\ KeyDown(InertiaKeyEvents)
    \/ Within(DampingSteps) /\ PointerDown(InertiaDowns)
    \/ Within(DampingSteps) /\ PointerMove(InertiaMoves)
    \/ Within(DampingSteps) /\ PointerUp(InertiaUps)
    \/ Within(DampingSteps) /\ Frame(DampingFrames)

SpecDamping == InitDamping /\ [][NextDamping]_vars

\* The five velocity channels as distances from rest: the two components of
\* rotate and of pan, dolly, zoom factor - 1 and fov factor - 1
Channels(s) ==
    [rotate |-> s._rotateVelocity, pan |-> s._panVelocity, dolly |-> s._dollyVelocity,
     zoom |-> s._zoomVelocity - SU, fov |-> s._fovVelocity - SU]

\* b is no further from rest than a and on the same side of it
NotBeyond(a, b) == Abs(b) <= Abs(a) /\ (a >= 0 => b >= 0) /\ (a <= 0 => b <= 0)

NotBeyond2(a, b) == NotBeyond(a[1], b[1]) /\ NotBeyond(a[2], b[2])

Length2(v) == v[1] * v[1] + v[2] * v[2]

\* No channel of `after` is larger than in `before` or on the other side of rest
NoChannelGrown(before, after) ==
    /\ NotBeyond2(before.rotate, after.rotate)
    /\ NotBeyond2(before.pan, after.pan)
    /\ NotBeyond(before.dolly, after.dolly)
    /\ NotBeyond(before.zoom, after.zoom)
    /\ NotBeyond(before.fov, after.fov)

\* Every channel of `before` above its stop threshold is smaller in `after`
MovingChannelsReduced(before, after) ==
    /\ Moving2(before.rotate, XU) => Length2(after.rotate) < Length2(before.rotate)
    /\ Moving2(before.pan, XU) => Length2(after.pan) < Length2(before.pan)
    /\ Abs(before.dolly) * STOP_EPSILON_INV > PU => Abs(after.dolly) < Abs(before.dolly)
    /\ Abs(before.zoom) * ZOOM_STOP_EPSILON_INV > SU => Abs(after.zoom) < Abs(before.zoom)
    /\ Abs(before.fov) * ZOOM_STOP_EPSILON_INV > SU => Abs(after.fov) < Abs(before.fov)

\* update() gets past its first line (line 850)
UpdateRuns(s) == s.enabled /\ s.enableDamping /\ ~s._drag.isDragging

\* C37 as stated: update() never increases the magnitude of a velocity channel and
\* never moves one to the other side of its rest value, for any delta (zero
\* and negative ones included) and any dampingFactor, and every channel
\* above its stop threshold is strictly reduced by the call
C37_UpdateReducesEveryChannel ==
    [][call'.name = "update" =>
          /\ NoChannelGrown(Channels(st), Channels(st'))
          /\ MovingChannelsReduced(Channels(st), Channels(st'))]_vars

\* C37: update() never increases a velocity channel nor moves it past its
\* rest value, for any delta and dampingFactor, with the strict reduction of
\* the channels above their thresholds for the calls of
\* update() that get past its first line (controller enabled, damping on,
\* no drag active); any other call leaves every channel as it is
C37_UpdateReducesWhenItRuns ==
    [][call'.name = "update" =>
          /\ NoChannelGrown(Channels(st), Channels(st'))
          /\ UpdateRuns(st) => MovingChannelsReduced(Channels(st), Channels(st'))
          /\ ~UpdateRuns(st) => Channels(st') = Channels(st)]_vars

\* update() with a delta of zero or less has moved the camera by a channel
\* above its threshold, under a dampingFactor outside [0, 1]
C37_DampedAtZeroDelta ==
    /\ call.name = "update" /\ call.changed
    /\ call.event.deltaFrames <= 0
    /\ st.dampingFactor < 0
    /\ st._dollyVelocity # 0

\* ------------------------------------------------- rejected bindings
\* C38: a rejected keyboardBindings assignment leaves the controller
\* unchanged: when the setter throws, the bindings installed before stay in
\* effect and every key event is dispatched as it was before the assignment
C38_RejectedBindingsChangeNothing ==
    [][(call'.name = "keyboardBindings" /\ call'.event.thrown # "none") =>
          /\ Begin(st') = Begin(st)
          /\ st'._keyboardBindings = st._keyboardBindings
          /\ \A event \in KeyEvents :
                 _onKeyDown(Begin(st'), event) = _onKeyDown(Begin(st), event)]_vars

\* Bindings other than the constructor's were installed, and an assignment
\* with one modifier on two actions has been rejected after them
C38_RejectedAfterAccepted ==
    /\ call.name = "keyboardBindings"
    /\ call.event.thrown = "duplicate modifier"
    /\ st._keyboardBindings = ZoomKeyboardBindings
    /\ call.event.value # st._keyboardBindings

\* ------------------------------------------------- the example's bindings: SpecBuild
\* ButtonLabel and ModifierLabel (examples/bindings)
ButtonLabels == {"left", "middle", "right"}

ModifierLabels == {"none", "ctrl", "meta", "alt", "shift"}

\* const buttonValues = { left: 0, middle: 1, right: 2 }
buttonValues == [left |-> 0, middle |-> 1, right |-> 2]

\* buildInputBindings with no modifier added when the buttons are equal
BuildWithoutFallback(rotateButton, panButton, panModifier) ==
    LET rotateBtn == buttonValues[rotateButton]
        panBtn == buttonValues[panButton]
    IN  IF panModifier # "none"
        THEN [bindings |-> [rotate |-> [button |-> rotateBtn],
                            pan |-> [button |-> panBtn, modifier |-> panModifier]],
              resolvedModifier |-> panModifier]
        ELSE [bindings |-> [rotate |-> [button |-> rotateBtn], pan |-> [button |-> panBtn]],
              resolvedModifier |-> "none"]

\* buildInputBindings(rotateButton, panButton, panModifier): a pan binding
\* without a modifier is a record without the field
buildInputBindings(rotateButton, panButton, panModifier) ==
    LET rotateBtn == buttonValues[rotateButton]
        panBtn == buttonValues[panButton]
        modifier == IF panModifier = "none" THEN "undefined" ELSE panModifier
    IN  IF rotateBtn = panBtn
        THEN LET resolved == IF modifier = "undefined" THEN "ctrl" ELSE modifier
             IN  [bindings |-> [rotate |-> [button |-> rotateBtn],
                                pan |-> [button |-> panBtn, modifier |-> resolved]],
                  resolvedModifier |-> resolved]
        ELSE IF modifier # "undefined"
        THEN [bindings |-> [rotate |-> [button |-> rotateBtn],
                            pan |-> [button |-> panBtn, modifier |-> modifier]],
              resolvedModifier |-> panModifier]
        ELSE [bindings |-> [rotate |-> [button |-> rotateBtn], pan |-> [button |-> panBtn]],
              resolvedModifier |-> "none"]

\* The three labels chosen in the example's panel
AllParams == [rotateButton : ButtonLabels, panButton : ButtonLabels, panModifier : ModifierLabels]

\* The number of calls of a behaviour of SpecBuild
BuildSteps == 3

\* Here st holds the panel's labels and the result of the last build
InitBuild ==
    /\ \E params \in AllParams : st = [params |-> params, result |-> [none |-> TRUE]]
    /\ call = [name |-> "constructor", event |-> [none |-> TRUE], changed |-> FALSE]
    /\ env = [buttons |-> {}, fingers |-> {}]
    /\ steps = 0

\* One of the panel's three labels is changed
SetParam ==
    /\ steps < BuildSteps
    /\ \E params \in AllParams :
           /\ Cardinality({f \in DOMAIN params : params[f] # st.params[f]}) = 1
           /\ st' = [st EXCEPT !.params = params]
           /\ call' = [name |-> "params", event |-> params, changed |-> FALSE]
    /\ steps' = steps + 1
    /\ UNCHANGED env

\* buildInputBindings is called with the panel's labels
Build ==
    /\ steps < BuildSteps
    /\ st' = [st EXCEPT !.result = buildInputBindings(st.params.rotateButton, st.params.panButton,
                                                      st.params.panModifier)]
    /\ call' = [name |-> "buildInputBindings", event |-> st.params, changed |-> FALSE]
    /\ steps' = steps + 1
    /\ UNCHANGED env

NextBuild == SetParam \/ Build

SpecBuild == InitBuild /\ [][NextBuild]_vars

\* The pan binding carries a modifier
HasModifier(pan) == "modifier" \in DOMAIN pan

\* C40: for every rotate button, pan button and pan-modifier label,
\* buildInputBindings returns bindings with exactly those buttons, whose pan
\* binding carries a modifier exactly when the buttons are equal or a
\* modifier other than 'none' was requested; equal buttons with 'none' get
\* 'ctrl'; and resolvedModifier names the modifier the bindings carry,
\* 'none' when they carry none
C40_BuiltBindingsMatchLabels ==
    call.name = "buildInputBindings" =>
        LET asked == call.event
            bindings == st.result.bindings
            same == asked.rotateButton = asked.panButton
        IN  /\ bindings.rotate.button = buttonValues[asked.rotateButton]
            /\ bindings.pan.button = buttonValues[asked.panButton]
            /\ HasModifier(bindings.pan) <=> (same \/ asked.panModifier # "none")
            /\ (same /\ asked.panModifier = "none") => bindings.pan.modifier = "ctrl"
            /\ st.result.resolvedModifier =
                   IF HasModifier(bindings.pan) THEN bindings.pan.modifier ELSE "none"

\* Both buttons 'middle' and no modifier asked for: the build has put ctrl
C40_FellBackToCtrl ==
    /\ call.name = "buildInputBindings"
    /\ call.event = [rotateButton |-> "middle", panButton |-> "middle", panModifier |-> "none"]
    /\ st.result.bindings.pan = [button |-> 1, modifier |-> "ctrl"]
    /\ st.result.resolvedModifier = "ctrl"

====
